---- MODULE Spec2Model ----
(***************************************************************************)
(* Event-driven simulation of the three-stage production line              *)
(* (src/event_driven_simulation.py, class SimulacionLineaProduccion).      *)
(*                                                                         *)
(* Time is discretised to the integers.  A uniform draw of rng.random()    *)
(* is a level u in 0..UMax-1 standing for u/UMax in [0,1); defect_prob is  *)
(* a level in 0..UMax standing for defect_prob/UMax in [0,1].  A draw of   *)
(* rng.gauss(mu, sigma) is an integer of ValoresGauss, negative values     *)
(* and values beyond the horizon included.  The append-only logs of        *)
(* self.stats are kept as their most recent sample only (a sequence of     *)
(* length <= 1), tiempos_sistema_caja with its length besides; logs that   *)
(* no handler reads back and no property mentions are not kept.            *)
(***************************************************************************)
EXTENDS Integers, Sequences, FiniteSets, TLC

\* ---------------------------------------------------------------- bounds
MaxSimTime == 5
MaxCap1 == 1
MaxCap2 == 2
MaxGauss == 2
MaxBatch == 2
MaxAttempts == 2
MaxLlamadas == 3
MaxMuestras == 3
MaxNivel == 2

\* ------------------------------------------------------ program constants
UMax == 3
BATCH_SIZE == 50

\* EstadoMaquina
OCIOSA == "OCIOSA"
PROCESANDO == "PROCESANDO"
BLOQUEADA == "BLOQUEADA"
INACTIVA_SIN_ENTRADA == "INACTIVA_SIN_ENTRADA"
EstadoMaquina == {OCIOSA, PROCESANDO, BLOQUEADA, INACTIVA_SIN_ENTRADA}

\* Evento.tipo
LLEGADA_ITEM_COLA1 == "LLEGADA_ITEM_COLA1"
FIN_PROCESO_MAQUINA1 == "FIN_PROCESO_MAQUINA1"
FIN_PROCESO_MAQUINA2 == "FIN_PROCESO_MAQUINA2"
FIN_PROCESO_MAQUINA3 == "FIN_PROCESO_MAQUINA3"

\* ------------------------------------------------------------ input sets
SimTimes == {0, MaxSimTime}
Capacidades1 == 0..MaxCap1
Capacidades2 == 0..MaxCap2
\* capacities as a caller may pass them, negative ones included
CapacidadesSinValidar1 == {-1, MaxCap1}
CapacidadesSinValidar2 == {-1, MaxCap2}
DefectProbs == {0, 1, UMax}
\* the two lowest levels and the highest one
ValoresUniformes == {0, 1, UMax - 1}
\* a negative draw, a draw within the horizon, a draw longer than the horizon
ValoresGauss == {-1, MaxGauss, MaxSimTime + 1}
\* the outcome of a draw for which no batch passes validation; it is no level
\* and no duration
Falla == -2
SorteosUniformes == ValoresUniformes \cup {Falla}
SorteosGauss == ValoresGauss \cup {Falla}
\* the seeds given to the constructor and to seed()
Semillas == {0, 3, 6}
\* significance_level in percent
Alphas == {1, 50}

VARIABLES
    sim_time, buffer1_capacity, buffer2_capacity, defect_prob,
    reloj, eventos, cola1, cola2, cola3,
    estado_m1, estado_m2, estado_m3,
    item_en_m1, item_en_m2, item_en_m3,
    stats,
    pc, evento_actual, rama, m1_antes, fallo_rng, espaciadas,
    _rng, _batch_size, _alpha, _max_attempts,
    _validated_batch, _batch_iterator,
    llamada, historia,
    wip_data, tiempo_total_simulacion, avg_wip, promedio_index, fase,
    buffer1, buffer2, defect_prob_param, env_queue, current_stats,
    cajas_iniciadas_m2, ultimo_sorteo, se_cuenta

\* the variables of the line
lineavars == <<sim_time, buffer1_capacity, buffer2_capacity, defect_prob,
               reloj, eventos, cola1, cola2, cola3,
               estado_m1, estado_m2, estado_m3,
               item_en_m1, item_en_m2, item_en_m3,
               stats, pc, evento_actual, rama, m1_antes, fallo_rng,
               espaciadas>>

\* the variables of the random source self.rng
rngvars == <<_rng, _batch_size, _alpha, _max_attempts,
             _validated_batch, _batch_iterator, llamada, historia>>

\* the sample list given to the averaging functions and what they return
calcvars == <<wip_data, tiempo_total_simulacion, avg_wip, promedio_index,
              fase>>

\* the buffers, the event queue and the counters of the process-based line
procvars == <<buffer1, buffer2, defect_prob_param, env_queue, current_stats,
              cajas_iniciadas_m2, ultimo_sorteo, se_cuenta>>

vars == <<lineavars, rngvars, calcvars, procvars>>

params == <<sim_time, buffer1_capacity, buffer2_capacity, defect_prob>>

\* ------------------------------------------------------------ data classes
Item(llegada_sistema, llegada_cola, ident) ==
    [tiempo_llegada_sistema |-> llegada_sistema,
     tiempo_llegada_cola_actual |-> llegada_cola,
     id |-> ident,
     defectuoso |-> FALSE]

Evento(tiempo, tipo) == [tiempo |-> tiempo, tipo |-> tipo]

\* Optional[Item]: None is the empty sequence, an item i is <<i>>.
None == <<>>

Max(a, b) == IF a >= b THEN a ELSE b

\* F applied to the value of v: v is evaluated once, however often F uses it
Tras(v, F(_)) == CHOOSE r \in {F(x) : x \in {v}} : TRUE

\* --------------------------------------------------------------- heapq
\* (tiempo, evento) < (tiempo', evento'): floats first; on equal floats the
\* tuple comparison goes on to the Evento objects, which are equal when their
\* fields are equal and otherwise have no "<" (TypeError).
CompararEntradas(a, b) ==
    IF a.tiempo < b.tiempo THEN "lt"
    ELSE IF a.tiempo > b.tiempo THEN "nlt"
    ELSE IF a.tipo = b.tipo THEN "nlt"
    ELSE "TypeError"

\* positions are 0-based as in heapq; h[p + 1] is heap[p]
Intercambiar(h, p, q) == [h EXCEPT ![p + 1] = h[q + 1], ![q + 1] = h[p + 1]]

RECURSIVE siftdown(_, _, _)
siftdown(lista, startpos, pos) ==
    Tras(lista, LAMBDA h :
    IF pos > startpos
    THEN LET parentpos == (pos - 1) \div 2
             c == CompararEntradas(h[pos + 1], h[parentpos + 1])
         IN  IF c = "TypeError" THEN [heap |-> h, err |-> TRUE]
             ELSE IF c = "lt"
                  THEN siftdown(Intercambiar(h, pos, parentpos), startpos, parentpos)
                  ELSE [heap |-> h, err |-> FALSE]
    ELSE [heap |-> h, err |-> FALSE])

RECURSIVE siftup_desde(_, _, _)
siftup_desde(lista, startpos, pos) ==
    Tras(lista, LAMBDA h :
    LET endpos == Len(h)
        limit == endpos \div 2
    IN  IF pos < limit
        THEN LET izq == 2 * pos + 1
                 c == IF izq + 1 < endpos
                      THEN CompararEntradas(h[izq + 1], h[izq + 2])
                      ELSE "lt"
                 childpos == IF c = "lt" THEN izq ELSE izq + 1
             IN  IF c = "TypeError" THEN [heap |-> h, err |-> TRUE]
                 ELSE siftup_desde(Intercambiar(h, childpos, pos), startpos, childpos)
        ELSE siftdown(h, startpos, pos))

siftup(h, pos) == siftup_desde(h, pos, pos)

heappush(h, entrada) == siftdown(Append(h, entrada), 0, Len(h))

\* heappop that takes the last entry of the list instead of the root
heappop_ultimo(lista) ==
    [item |-> lista[Len(lista)], heap |-> SubSeq(lista, 1, Len(lista) - 1), err |-> FALSE]

\* heappop of a non-empty heap: [item, heap, err]
heappop(lista) ==
    Tras(lista, LAMBDA h :
    LET lastelt == h[Len(h)]
        resto == SubSeq(h, 1, Len(h) - 1)
    IN  IF resto = <<>>
        THEN [item |-> lastelt, heap |-> resto, err |-> FALSE]
        ELSE LET r == siftup([resto EXCEPT ![1] = lastelt], 0)
             IN  [item |-> h[1], heap |-> r.heap, err |-> r.err])

\* ------------------------------------------------------ ValidatedRandom
\* LinearCongruenceRandom: x' = (LcgA * x + LcgC) mod LcgM, and random()
\* returns x' / LcgM, kept as the level x'; seeding sets x.
LcgM == 8
LcgA == 5
LcgC == 3

LcgSeed(value) == value % LcgM

LcgRandom(x) == (LcgA * x + LcgC) % LcgM

\* [self._rng.random() for _ in range(n)]: the batch and the generator after it
RECURSIVE GenerarLote(_, _)
GenerarLote(x, n) ==
    IF n <= 0
    THEN [lote |-> <<>>, rng |-> x]
    ELSE LET r == LcgRandom(x)
             resto == GenerarLote(r, n - 1)
         IN  [lote |-> <<r>> \o resto.lote, rng |-> resto.rng]

RECURSIVE Suma(_)
Suma(numbers) ==
    IF numbers = <<>> THEN 0 ELSE Head(numbers) + Suma(Tail(numbers))

\* 100 * norm.ppf(1 - alpha / 2) ^ 2, alpha in percent
ZCuadrado100(alpha) == IF alpha = 1 THEN 663 ELSE 45

\* lower_limit <= mean(numbers) <= upper_limit with the limits
\* 0.5 -+ z / sqrt(12 n), in integers; an empty list leaves the mean and both
\* limits at 0
AverageTest(numbers, alpha) ==
    LET n == Len(numbers)
        d == 2 * Suma(numbers) - n * LcgM
    IN  n = 0 \/ 300 * d * d <= ZCuadrado100(alpha) * n * LcgM * LcgM

\* 1000 * stats.chi2.ppf(1 - 0.05, 9)
ChiCritico1000 == 16919

\* ten equal intervals between the minimum and the maximum, the last one
\* closed; min() of an empty list raises and the test does not pass
ChiSquareTest(numbers) ==
    LET n == Len(numbers)
        min_val == CHOOSE v \in {numbers[j] : j \in DOMAIN numbers} :
                       \A j \in DOMAIN numbers : v <= numbers[j]
        max_val == CHOOSE v \in {numbers[j] : j \in DOMAIN numbers} :
                       \A j \in DOMAIN numbers : v >= numbers[j]
        Intervalo(num) ==
            IF min_val = max_val THEN 9
            ELSE LET i == (10 * (num - min_val)) \div (max_val - min_val)
                 IN  IF i > 9 THEN 9 ELSE i
        observed_freq(i) ==
            Cardinality({j \in DOMAIN numbers : Intervalo(numbers[j]) = i})
        Desvio(i) == (10 * observed_freq(i) - n) * (10 * observed_freq(i) - n)
        chi_square_10n ==
            Desvio(0) + Desvio(1) + Desvio(2) + Desvio(3) + Desvio(4)
            + Desvio(5) + Desvio(6) + Desvio(7) + Desvio(8) + Desvio(9)
    IN  n > 0 /\ 1000 * chi_square_10n <= ChiCritico1000 * 10 * n

\* 1000 * d_max_p, the critical distance for n numbers, alpha in percent
KsCritico1000(n, alpha) ==
    LET tabla == IF alpha = 1 THEN <<995, 929, 829, 734, 669>>
                 ELSE <<750, 500, 435, 382, 344>>
    IN  IF n <= 5 THEN tabla[n] ELSE 300

\* d_max <= d_max_p, where d_max is the largest distance between the
\* empirical distribution of the numbers and the uniform one
KsTest(numbers, alpha) ==
    LET n == Len(numbers)
        Hasta(j) == Cardinality({k \in DOMAIN numbers : numbers[k] <= numbers[j]})
        Antes(j) == Cardinality({k \in DOMAIN numbers : numbers[k] < numbers[j]})
    IN  \A j \in DOMAIN numbers :
            /\ 1000 * (Hasta(j) * LcgM - n * numbers[j])
                   <= KsCritico1000(n, alpha) * n * LcgM
            /\ 1000 * (n * numbers[j] - Antes(j) * LcgM)
                   <= KsCritico1000(n, alpha) * n * LcgM

_run_tests(numbers) ==
    LET passed_tests ==
            (IF AverageTest(numbers, _alpha) THEN 1 ELSE 0)
            + (IF ChiSquareTest(numbers) THEN 1 ELSE 0)
            + (IF KsTest(numbers, _alpha) THEN 1 ELSE 0)
        total_tests == 3
    IN  10 * passed_tests >= 8 * total_tests

\* iter(lista): the list and the number of elements already served
iter(lista) == [lista |-> lista, pos |-> 0]

\* next() of the iterator does not raise StopIteration
HayMas(it) == it.pos < Len(it.lista)

\* The fields of the ValidatedRandom object that its methods change, and what
\* the last call did: the exception it raised, the value it returned, and the
\* batches it generated and rejected.
Rng ==
    [_rng |-> _rng, _validated_batch |-> _validated_batch,
     _batch_iterator |-> _batch_iterator,
     exc |-> "NINGUNA", valor |-> Falla, generados |-> 0, rechazados |-> 0]

\* the loop that makes one attempt more than max_attempts
QuedanIntentos_uno_mas(attempts) == attempts <= _max_attempts

\* while attempts < self._max_attempts
QuedanIntentos(attempts) == attempts < _max_attempts

\* the batch is installed whatever the tests say
LotePasa_sin_probar(batch) == TRUE

\* if self._run_tests(batch)
LotePasa(batch) == _run_tests(batch)

RECURSIVE IntentarLote(_, _)
IntentarLote(obj, attempts) ==
    IF QuedanIntentos(attempts)
    THEN LET g == GenerarLote(obj._rng, _batch_size)
             o1 == [obj EXCEPT !._rng = g.rng, !.generados = @ + 1]
         IN  IF LotePasa(g.lote)
             THEN [o1 EXCEPT !._validated_batch = g.lote,
                             !._batch_iterator = iter(g.lote)]
             ELSE IntentarLote([o1 EXCEPT !.rechazados = @ + 1], attempts + 1)
    ELSE [obj EXCEPT !.exc = "ValidationError"]

_generate_and_validate_batch(obj) == IntentarLote(obj, 0)

\* return next(self._batch_iterator)
Servir(obj) ==
    IF HayMas(obj._batch_iterator)
    THEN [obj EXCEPT !.valor = obj._batch_iterator.lista[obj._batch_iterator.pos + 1],
                     !._batch_iterator.pos = @ + 1]
    ELSE [obj EXCEPT !.exc = "StopIteration"]

random(obj) ==
    IF HayMas(obj._batch_iterator)
    THEN Servir(obj)
    ELSE LET o1 == _generate_and_validate_batch(obj)
         IN  IF o1.exc /= "NINGUNA" THEN o1 ELSE Servir(o1)

\* seed() that keeps the batch being served
seed_sin_descartar(obj, value) == [obj EXCEPT !._rng = LcgSeed(value)]

seed(obj, value) ==
    [obj EXCEPT !._rng = LcgSeed(value),
                !._validated_batch = <<>>,
                !._batch_iterator = iter(<<>>)]

\* ------------------------------------------- time-weighted averages
\* a float quotient num / den, kept as the pair; 0.0 is 0 / 1
Cociente(num, den) == [num |-> num, den |-> den]

Cero == Cociente(0, 1)

\* the sum of w1 * (t2 - t1) over the consecutive samples from position i on
RECURSIVE area_total(_, _)
area_total(datos, i) ==
    IF i >= Len(datos) THEN 0
    ELSE datos[i][2] * (datos[i + 1][1] - datos[i][1]) + area_total(datos, i + 1)

\* calcular_wip_promedio that integrates the samples as they come
calcular_wip_promedio_sin_extender(datos, total) ==
    IF datos = <<>> \/ total = 0
    THEN Cero
    ELSE IF total > 0 THEN Cociente(area_total(datos, 1), total) ELSE Cero

\* the function works on a copy of the log: list(resultados[...])
calcular_wip_promedio(datos, total) ==
    IF datos = <<>> \/ total = 0
    THEN Cero
    ELSE LET ultimo == datos[Len(datos)]
             extendido == IF ultimo[1] < total
                          THEN Append(datos, <<total, ultimo[2]>>)
                          ELSE datos
         IN  IF total > 0
             THEN Cociente(area_total(extendido, 1), total)
             ELSE Cero

\* index.py: the weighted sum of the points from position i on
RECURSIVE weighted_sum(_, _, _)
weighted_sum(data_points, total_duration, i) ==
    IF i > Len(data_points) THEN 0
    ELSE LET current_time == data_points[i][1]
             current_level == data_points[i][2]
             d == IF i + 1 <= Len(data_points)
                  THEN data_points[i + 1][1] - current_time
                  ELSE IF current_time <= total_duration
                       THEN total_duration - current_time
                       ELSE 0
             duration_at_current_level == IF d < 0 THEN 0 ELSE d
         IN  current_level * duration_at_current_level
             + weighted_sum(data_points, total_duration, i + 1)

calculate_time_weighted_average(data_points, total_duration) ==
    IF data_points = <<>> \/ total_duration = 0
    THEN Cero
    ELSE IF total_duration > 0
         THEN Cociente(weighted_sum(data_points, total_duration, 1), total_duration)
         ELSE Cero

\* ------------------------------------------------ the process-based line
\* index.py: maquina1, maquina2 and maquina3 are SimPy processes that share
\* the Container buffer1 and the Store buffer2.  env_queue is the event queue
\* of the Environment: the events in the order in which env.step() takes them,
\* each with the time left until it is due; events that are due at the same
\* time stay in the order in which they were scheduled.  A process is where
\* its event is: in env_queue once the event is triggered, in the put or get
\* queue of the resource while the request waits.  The monitor process only
\* reads the levels and is left out; the draws of rt_instance do not fail.

\* buffer1_resource.get(50)
CARAMELOS_POR_CAJA == 50

MAQUINA1 == "maquina1"
MAQUINA2 == "maquina2"
MAQUINA3 == "maquina3"

\* the durations custom_expovariate returns: -log(u) * mean_time > 0
DuracionesProceso == {1, MaxGauss}

\* capacities below, at and above the amount maquina2 asks for
CapacidadesBuffer1 == {1, CARAMELOS_POR_CAJA, CARAMELOS_POR_CAJA + 1}
CapacidadesBuffer2 == 1..MaxCap2

\* current_stats of run_simulation, the counters
StatsProcesos ==
    [producidos_m1 |-> 0,
     defectos_m1 |-> 0,
     caramelos_a_buffer1 |-> 0,
     cajas_empaquetadas_m2 |-> 0,
     cajas_selladas_m3 |-> 0]

\* run_simulation has not been called: no buffer holds anything and no
\* event is scheduled
ProcesosSinArrancar ==
    /\ buffer1 = [capacity |-> 0, level |-> 0,
                  put_queue |-> <<>>, get_queue |-> <<>>]
    /\ buffer2 = [capacity |-> 0, items |-> <<>>,
                  put_queue |-> <<>>, get_queue |-> <<>>]
    /\ defect_prob_param = 0
    /\ env_queue = <<>>
    /\ current_stats = StatsProcesos
    /\ cajas_iniciadas_m2 = 0
    /\ ultimo_sorteo = <<>>
    /\ se_cuenta = TRUE

\* the objects the processes share, and two records of what happened: the
\* get(50) requests carried out and the last defect draw of maquina1
Mundo ==
    [buffer1 |-> buffer1, buffer2 |-> buffer2, queue |-> env_queue,
     stats |-> current_stats, iniciadas |-> cajas_iniciadas_m2,
     sorteo |-> ultimo_sorteo]

\* env.schedule(event, NORMAL, delay): behind the events due no later
schedule(queue, delay, tipo, proc) ==
    LET k == Cardinality({i \in DOMAIN queue : queue[i].delay <= delay})
    IN  SubSeq(queue, 1, k)
        \o <<[delay |-> delay, tipo |-> tipo, proc |-> proc]>>
        \o SubSeq(queue, k + 1, Len(queue))

\* Container._do_put for the first request waiting, then event.succeed()
Container_do_put(w) ==
    LET event == Head(w.buffer1.put_queue)
    IN  IF w.buffer1.capacity - w.buffer1.level >= event.amount
        THEN [w EXCEPT !.buffer1.level = @ + event.amount,
                       !.buffer1.put_queue = Tail(@),
                       !.queue = schedule(@, 0, "ContainerPut", event.proc)]
        ELSE w

Container_trigger_put(w) ==
    IF w.buffer1.put_queue = <<>> THEN w ELSE Container_do_put(w)

\* Container._do_get that takes one unit less than was asked for
Container_do_get_de_menos(w) ==
    LET event == Head(w.buffer1.get_queue)
    IN  IF w.buffer1.level >= event.amount
        THEN [w EXCEPT !.buffer1.level = @ - (event.amount - 1),
                       !.buffer1.get_queue = Tail(@),
                       !.iniciadas = @ + 1,
                       !.queue = schedule(@, 0, "ContainerGet", event.proc)]
        ELSE w

\* Container._do_get for the first request waiting, then event.succeed()
Container_do_get(w) ==
    LET event == Head(w.buffer1.get_queue)
    IN  IF w.buffer1.level >= event.amount
        THEN [w EXCEPT !.buffer1.level = @ - event.amount,
                       !.buffer1.get_queue = Tail(@),
                       !.iniciadas = @ + 1,
                       !.queue = schedule(@, 0, "ContainerGet", event.proc)]
        ELSE w

Container_trigger_get(w) ==
    IF w.buffer1.get_queue = <<>> THEN w ELSE Container_do_get(w)

\* Store._do_put
Store_do_put(w) ==
    LET event == Head(w.buffer2.put_queue)
    IN  IF Len(w.buffer2.items) < w.buffer2.capacity
        THEN [w EXCEPT !.buffer2.items = Append(@, event.item),
                       !.buffer2.put_queue = Tail(@),
                       !.queue = schedule(@, 0, "StorePut", event.proc)]
        ELSE w

Store_trigger_put(w) ==
    IF w.buffer2.put_queue = <<>> THEN w ELSE Store_do_put(w)

\* Store._do_get: event.succeed(self.items.pop(0))
Store_do_get(w) ==
    LET event == Head(w.buffer2.get_queue)
    IN  IF w.buffer2.items /= <<>>
        THEN [w EXCEPT !.buffer2.items = Tail(@),
                       !.buffer2.get_queue = Tail(@),
                       !.queue = schedule(@, 0, "StoreGet", event.proc)]
        ELSE w

Store_trigger_get(w) ==
    IF w.buffer2.get_queue = <<>> THEN w ELSE Store_do_get(w)

\* rt_instance.random() > defect_prob_param
CarameloBueno(u) == u > defect_prob_param

\* maquina1 at the top of its loop: yield env.timeout(processing_time)
maquina1_inicio(w, d) ==
    [w EXCEPT !.queue = schedule(@, d, "Timeout", MAQUINA1)]

\* maquina1 after its timeout: the unit is counted and either put or dropped
maquina1_tras_timeout(w, u, d) ==
    LET w1 == [w EXCEPT !.stats.producidos_m1 = @ + 1,
                        !.sorteo = <<[u |-> u, bueno |-> CarameloBueno(u)]>>]
    IN  IF CarameloBueno(u)
        THEN Container_trigger_put(
                 [w1 EXCEPT !.buffer1.put_queue =
                                Append(@, [amount |-> 1, proc |-> MAQUINA1])])
        ELSE maquina1_inicio([w1 EXCEPT !.stats.defectos_m1 = @ + 1], d)

\* maquina1 resumed by its put: stats_dict['caramelos_a_buffer1'] += 1
maquina1_tras_put(w, d) ==
    maquina1_inicio([w EXCEPT !.stats.caramelos_a_buffer1 = @ + 1], d)

\* maquina2 at the top of its loop: yield buffer1_resource.get(50)
maquina2_inicio(w) ==
    Container_trigger_get(
        [w EXCEPT !.buffer1.get_queue =
                      Append(@, [amount |-> CARAMELOS_POR_CAJA,
                                 proc |-> MAQUINA2])])

\* maquina2 resumed by its get: yield env.timeout(processing_time)
maquina2_tras_get(w, d) ==
    [w EXCEPT !.queue = schedule(@, d, "Timeout", MAQUINA2)]

\* maquina2 after its timeout: yield buffer2_store.put({'id': caja_id, ...})
maquina2_tras_timeout(w) ==
    LET caja_id == w.stats.cajas_empaquetadas_m2
    IN  Store_trigger_put(
            [w EXCEPT !.buffer2.put_queue =
                          Append(@, [item |-> caja_id, proc |-> MAQUINA2])])

\* maquina2 resumed by its put: the box is counted and the loop starts again
maquina2_tras_put(w) ==
    maquina2_inicio([w EXCEPT !.stats.cajas_empaquetadas_m2 = @ + 1])

\* maquina3 at the top of its loop: caja_data = yield buffer2_store.get()
maquina3_inicio(w) ==
    Store_trigger_get(
        [w EXCEPT !.buffer2.get_queue = Append(@, [proc |-> MAQUINA3])])

\* maquina3 resumed by its get: yield env.timeout(processing_time)
maquina3_tras_get(w, d) ==
    [w EXCEPT !.queue = schedule(@, d, "Timeout", MAQUINA3)]

\* maquina3 after its timeout: the box is sealed and the loop starts again
maquina3_tras_timeout(w) ==
    maquina3_inicio([w EXCEPT !.stats.cajas_selladas_m3 = @ + 1])

\* ------------------------------------------------- the simulation object
\* The mutable fields of self as one record, so that a handler is a function
\* from the object before to the object after; err is TRUE once an exception
\* is propagating (exc names it), and the statements after the raising call
\* are skipped.
Self ==
    [reloj |-> reloj, eventos |-> eventos,
     cola1 |-> cola1, cola2 |-> cola2, cola3 |-> cola3,
     estado_m1 |-> estado_m1, estado_m2 |-> estado_m2, estado_m3 |-> estado_m3,
     item_en_m1 |-> item_en_m1, item_en_m2 |-> item_en_m2, item_en_m3 |-> item_en_m3,
     stats |-> stats, err |-> FALSE, exc |-> "NINGUNA", rama |-> "NINGUNA",
     fallo_rng |-> fallo_rng]

\* an append-only list of numbers: its length and its last element
ListaVacia == [len |-> 0, ultimo |-> <<>>]

\* lista.append(valor)
Anotado(lista, valor) == [len |-> lista.len + 1, ultimo |-> <<valor>>]

StatsInicial ==
    [producidos_m1 |-> 0,
     defectos_m1 |-> 0,
     caramelos_a_buffer1 |-> 0,
     cajas_empaquetadas_m2 |-> 0,
     cajas_selladas_m3 |-> 0,
     tiempos_sistema_caja |-> ListaVacia,
     items_perdidos_buffer1 |-> 0,
     estado_maquinas_tiempo |-> <<>>,
     niveles_colas_tiempo |-> <<>>]

\* a failed draw that is answered as if it had succeeded
Sortear_tragado(s, d) == [s EXCEPT !.fallo_rng = @ \/ d = Falla]

\* self.rng.random(), self.rng.gauss(): the draw d is returned, or no batch
\* passes validation and ValidationError is raised
Sortear(s, d) ==
    IF d = Falla
    THEN [s EXCEPT !.err = TRUE, !.exc = "ValidationError", !.fallo_rng = TRUE]
    ELSE s

\* an inter-arrival time that is not positive
_generar_tiempo_exponencial_cero(u) == 0

_generar_tiempo_exponencial(u) ==
    \* u == 0 is replaced by the smallest positive value; -log(u) * media is
    \* positive and decreasing in u
    LET uu == IF u = 0 THEN 1 ELSE u
    IN  UMax - uu

\* the Gaussian draw used as it comes, without max(0, .)
_generar_tiempo_normal_sin_max(tiempo_generado) == tiempo_generado

_generar_tiempo_normal(tiempo_generado) == Max(0, tiempo_generado)

_programar_evento(obj, tiempo, tipo) ==
    Tras(obj, LAMBDA s :
    LET r == heappush(s.eventos, Evento(tiempo, tipo))
    IN  [s EXCEPT !.eventos = r.heap, !.err = r.err,
                  !.exc = IF r.err THEN "TypeError" ELSE @])

_registrar_estados(obj) ==
    Tras(obj, LAMBDA s :
    [s EXCEPT
       !.stats.estado_maquinas_tiempo =
           << <<s.reloj, s.estado_m1, s.estado_m2, s.estado_m3>> >>,
       !.stats.niveles_colas_tiempo =
           << <<s.reloj, Len(s.cola1), Len(s.cola2), Len(s.cola3)>> >>])

\* ---------------------------------------------------- branch conditions
\* the capacity test off by one
HayEspacioCola1_uno_mas(s) == Len(s.cola1) <= buffer1_capacity

HayEspacioCola1(s) == Len(s.cola1) < buffer1_capacity

\* the capacity test of cola2 off by one
HayEspacioCola2_uno_mas(s) == Len(s.cola2) <= buffer2_capacity

HayEspacioCola2(s) == Len(s.cola2) < buffer2_capacity

\* cola3 has no capacity of its own: buffer3_simulated_capacity = buffer2_capacity
HayEspacioCola3(s) == Len(s.cola3) < buffer2_capacity

\* rng.random() >= defect_prob: the finished item is not defective
NoDefectuoso(u) == u >= defect_prob

ContarProducido(st) == [st EXCEPT !.producidos_m1 = @ + 1]

ContarBueno(st) == [st EXCEPT !.caramelos_a_buffer1 = @ + 1]

\* the defect branch without its counter
ContarDefecto_omitido(st) == st

ContarDefecto(st) == [st EXCEPT !.defectos_m1 = @ + 1]

\* an arrival turned away without its counter
ContarPerdido_omitido(st) == st

ContarPerdido(st) == [st EXCEPT !.items_perdidos_buffer1 = @ + 1]

\* stage 2 finishing without its counter
ContarEmpaquetada_omitido(st) == st

ContarEmpaquetada(st) == [st EXCEPT !.cajas_empaquetadas_m2 = @ + 1]

ContarSellada(st) == [st EXCEPT !.cajas_selladas_m3 = @ + 1]

EnCola(item, ahora) == [item EXCEPT !.tiempo_llegada_cola_actual = ahora]

\* M1 takes the head of cola1 but no completion is scheduled
IniciarM1DesdeCola1_sin_programar(obj, g1) ==
    Tras(obj, LAMBDA s :
    Sortear([s EXCEPT !.item_en_m1 = <<Head(s.cola1)>>,
                      !.cola1 = Tail(s.cola1),
                      !.estado_m1 = PROCESANDO], g1))

\* M1 takes the head of cola1 and its completion is scheduled
IniciarM1DesdeCola1(obj, g1) ==
    Tras(obj, LAMBDA s :
    LET s1 == Sortear([s EXCEPT !.item_en_m1 = <<Head(s.cola1)>>,
                                !.cola1 = Tail(s.cola1),
                                !.estado_m1 = PROCESANDO], g1)
    IN  IF s1.err THEN s1
        ELSE _programar_evento(s1, s1.reloj + _generar_tiempo_normal(g1), FIN_PROCESO_MAQUINA1))

\* M2 takes the head of cola2 but its state is left as it was
IniciarM2DesdeCola2_sin_estado(obj, g2) ==
    Tras(obj, LAMBDA s :
    LET s1 == Sortear([s EXCEPT !.item_en_m2 = <<Head(s.cola2)>>,
                                !.cola2 = Tail(s.cola2)], g2)
    IN  IF s1.err THEN s1
        ELSE _programar_evento(s1, s1.reloj + _generar_tiempo_normal(g2),
                               FIN_PROCESO_MAQUINA2))

\* M2 takes the head of cola2 and its completion is scheduled
IniciarM2DesdeCola2(obj, g2) ==
    Tras(obj, LAMBDA s :
    LET s1 == Sortear([s EXCEPT !.item_en_m2 = <<Head(s.cola2)>>,
                                !.cola2 = Tail(s.cola2),
                                !.estado_m2 = PROCESANDO], g2)
    IN  IF s1.err THEN s1
        ELSE _programar_evento(s1, s1.reloj + _generar_tiempo_normal(g2), FIN_PROCESO_MAQUINA2))

\* the test that starts M3 only when it is OCIOSA
M3PuedeIniciar_solo_ociosa(s) == s.estado_m3 = OCIOSA /\ Len(s.cola3) > 0

\* self.estado_m3 in [OCIOSA, INACTIVA_SIN_ENTRADA] and len(self.cola3) > 0
M3PuedeIniciar(s) ==
    s.estado_m3 \in {OCIOSA, INACTIVA_SIN_ENTRADA} /\ Len(s.cola3) > 0

\* M3 takes the head of cola3 and its completion is scheduled
IniciarM3DesdeCola3(obj, g3) ==
    Tras(obj, LAMBDA s :
    LET s1 == Sortear([s EXCEPT !.item_en_m3 = <<Head(s.cola3)>>,
                                !.cola3 = Tail(s.cola3),
                                !.estado_m3 = PROCESANDO], g3)
    IN  IF s1.err THEN s1
        ELSE _programar_evento(s1, s1.reloj + _generar_tiempo_normal(g3), FIN_PROCESO_MAQUINA3))

\* ---------------------------------------------------------------- handlers
\* u: the draw for the inter-arrival time; g1: the draw for M1's time
_manejar_llegada_item_cola1(obj, u, g1) ==
    Tras(obj, LAMBDA s :
    LET s0 == Sortear(s, u)
        s1 == IF s0.err THEN s0
              ELSE _programar_evento(s0, s0.reloj + _generar_tiempo_exponencial(u),
                                     LLEGADA_ITEM_COLA1)
        nuevo_item == Item(s.reloj, s.reloj, s.stats.producidos_m1)
    IN  IF s1.err THEN s1
        ELSE IF s1.estado_m1 = OCIOSA /\ HayEspacioCola2(s1)
        THEN LET s2 == Sortear([s1 EXCEPT !.item_en_m1 = <<nuevo_item>>,
                                          !.estado_m1 = PROCESANDO,
                                          !.rama = "M1_INICIA"], g1)
                 s3 == IF s2.err THEN s2
                       ELSE _programar_evento(
                                s2, s2.reloj + _generar_tiempo_normal(g1),
                                FIN_PROCESO_MAQUINA1)
             IN  IF s3.err THEN s3 ELSE _registrar_estados(s3)
        ELSE IF HayEspacioCola1(s1)
        THEN _registrar_estados(
                 [s1 EXCEPT !.cola1 = Append(@, nuevo_item), !.rama = "A_COLA1"])
        ELSE _registrar_estados(
                 [s1 EXCEPT !.stats = ContarPerdido(@), !.rama = "PERDIDO"]))

\* the tail of _manejar_fin_proceso_maquina1: next item of cola1, or idle
SiguienteDeCola1(obj, g1) ==
    Tras(obj, LAMBDA s :
    IF s.estado_m1 /= BLOQUEADA
    THEN IF Len(s.cola1) > 0
         THEN LET s1 == IniciarM1DesdeCola1(s, g1)
              IN  IF s1.err THEN s1 ELSE _registrar_estados(s1)
         ELSE _registrar_estados([s EXCEPT !.estado_m1 = OCIOSA])
    ELSE _registrar_estados(s))

\* u: the defect draw; g2, g1: the draws for M2's and M1's times
_manejar_fin_proceso_maquina1(obj, u, g2, g1) ==
    Tras(obj, LAMBDA s :
    LET item_procesado == s.item_en_m1[1]
        s0 == Sortear([s EXCEPT !.item_en_m1 = None,
                                !.stats = ContarProducido(@)], u)
    IN  IF s0.err THEN s0
        ELSE IF NoDefectuoso(u)
        THEN LET s1 == [s0 EXCEPT !.stats = ContarBueno(@)]
             IN  IF HayEspacioCola2(s1)
                 THEN LET s2 == [s1 EXCEPT
                                   !.cola2 = Append(@, EnCola(item_procesado, s.reloj)),
                                   !.rama = "A_COLA2"]
                      IN  IF s2.estado_m2 \in {OCIOSA, INACTIVA_SIN_ENTRADA}
                             /\ Len(s2.cola2) > 0
                          THEN LET s3 == IniciarM2DesdeCola2(s2, g2)
                               IN  IF s3.err THEN s3
                                   ELSE SiguienteDeCola1(s3, g1)
                          ELSE SiguienteDeCola1(s2, g1)
                 ELSE \* cola2 llena: M1 retains the item and returns
                      [s1 EXCEPT !.estado_m1 = BLOQUEADA,
                                 !.item_en_m1 = <<item_procesado>>,
                                 !.rama = "M1_BLOQUEADA"]
        ELSE SiguienteDeCola1(
                 [s0 EXCEPT !.stats = ContarDefecto(@), !.rama = "DEFECTUOSO"], g1))

\* the unblock that counts the released item as one more good unit
LiberarM1_contando(s) ==
    [s EXCEPT !.cola2 = Append(@, EnCola(s.item_en_m1[1], s.reloj)),
              !.item_en_m1 = None,
              !.estado_m1 = OCIOSA,
              !.stats = ContarBueno(@)]

\* the item M1 could not place goes to the end of cola2; M1 is idle
LiberarM1(s) ==
    [s EXCEPT !.cola2 = Append(@, EnCola(s.item_en_m1[1], s.reloj)),
              !.item_en_m1 = None,
              !.estado_m1 = OCIOSA]

\* _manejar_fin_proceso_maquina2 without the unblock of M1
DesbloquearM1_nunca(obj, g1) == _registrar_estados(obj)

\* the cascading unblock of M1 at the end of _manejar_fin_proceso_maquina2
DesbloquearM1(obj, g1) ==
    Tras(obj, LAMBDA s :
    IF s.estado_m1 = BLOQUEADA /\ HayEspacioCola2(s)
    THEN LET s1 == LiberarM1(s)
         IN  IF Len(s1.cola1) > 0
             THEN LET s2 == IniciarM1DesdeCola1(s1, g1)
                  IN  IF s2.err THEN s2 ELSE _registrar_estados(s2)
             ELSE _registrar_estados(s1)
    ELSE _registrar_estados(s))

\* the middle of _manejar_fin_proceso_maquina2: next item of cola2, or starved
SiguienteDeCola2(obj, g2, g1) ==
    Tras(obj, LAMBDA s :
    IF s.estado_m2 /= BLOQUEADA
    THEN IF Len(s.cola2) > 0
         THEN LET s1 == IniciarM2DesdeCola2(s, g2)
              IN  IF s1.err THEN s1 ELSE DesbloquearM1(s1, g1)
         ELSE DesbloquearM1([s EXCEPT !.estado_m2 = INACTIVA_SIN_ENTRADA], g1)
    ELSE DesbloquearM1(s, g1))

\* g3, g2, g1: the draws for M3's, M2's and M1's times
_manejar_fin_proceso_maquina2(obj, g3, g2, g1) ==
    Tras(obj, LAMBDA s :
    LET item_procesado == s.item_en_m2[1]
        s0 == [s EXCEPT !.item_en_m2 = None,
                        !.stats = ContarEmpaquetada(@)]
    IN  IF HayEspacioCola3(s0)
        THEN LET s1 == [s0 EXCEPT
                          !.cola3 = Append(@, EnCola(item_procesado, s.reloj)),
                          !.rama = "A_COLA3"]
             IN  IF M3PuedeIniciar(s1)
                 THEN LET s2 == IniciarM3DesdeCola3(s1, g3)
                      IN  IF s2.err THEN s2 ELSE SiguienteDeCola2(s2, g2, g1)
                 ELSE SiguienteDeCola2(s1, g2, g1)
        ELSE SiguienteDeCola2(
                 [s0 EXCEPT !.estado_m2 = BLOQUEADA,
                            !.item_en_m2 = <<item_procesado>>,
                            !.rama = "M2_BLOQUEADA"], g2, g1))

\* _manejar_fin_proceso_maquina3 without the unblock of M2
DesbloquearM2_nunca(obj, g2) == _registrar_estados(obj)

\* the cascading unblock of M2 at the end of _manejar_fin_proceso_maquina3
DesbloquearM2(obj, g2) ==
    Tras(obj, LAMBDA s :
    IF s.estado_m2 = BLOQUEADA /\ HayEspacioCola3(s)
    THEN LET s1 == [s EXCEPT
                      !.cola3 = Append(@, EnCola(s.item_en_m2[1], s.reloj)),
                      !.item_en_m2 = None,
                      !.estado_m2 = OCIOSA]
         IN  IF Len(s1.cola2) > 0
             THEN LET s2 == IniciarM2DesdeCola2(s1, g2)
                  IN  IF s2.err THEN s2 ELSE _registrar_estados(s2)
             ELSE _registrar_estados([s1 EXCEPT !.estado_m2 = INACTIVA_SIN_ENTRADA])
    ELSE _registrar_estados(s))

\* the time in the system measured from the entry into the current queue
tiempo_en_sistema_desde_cola(s, item_terminado) ==
    s.reloj - item_terminado.tiempo_llegada_cola_actual

\* tiempo_en_sistema = self.reloj - item_terminado.tiempo_llegada_sistema
tiempo_en_sistema(s, item_terminado) ==
    s.reloj - item_terminado.tiempo_llegada_sistema

\* g3, g2: the draws for M3's and M2's times
_manejar_fin_proceso_maquina3(obj, g3, g2) ==
    Tras(obj, LAMBDA s :
    LET item_terminado == s.item_en_m3[1]
        s0 == [s EXCEPT
                 !.item_en_m3 = None,
                 !.stats = [ContarSellada(@) EXCEPT
                              !.tiempos_sistema_caja =
                                  Anotado(@, tiempo_en_sistema(s, item_terminado))],
                 !.rama = "SELLADA"]
    IN  IF Len(s0.cola3) > 0
        THEN LET s1 == IniciarM3DesdeCola3(s0, g3)
             IN  IF s1.err THEN s1 ELSE DesbloquearM2(s1, g2)
        ELSE DesbloquearM2([s0 EXCEPT !.estado_m3 = INACTIVA_SIN_ENTRADA], g2))

\* ------------------------------------------------------------- the run
\* __init__ stores its arguments as they come and builds the empty line
LineaConstruida(horizontes, capacidades1, capacidades2, probabilidades) ==
    /\ sim_time \in horizontes
    /\ buffer1_capacity \in capacidades1
    /\ buffer2_capacity \in capacidades2
    /\ defect_prob \in probabilidades
    /\ reloj = 0
    /\ eventos = <<>>
    /\ cola1 = <<>> /\ cola2 = <<>> /\ cola3 = <<>>
    /\ estado_m1 = OCIOSA /\ estado_m2 = OCIOSA /\ estado_m3 = OCIOSA
    /\ item_en_m1 = None /\ item_en_m2 = None /\ item_en_m3 = None
    /\ stats = StatsInicial
    /\ pc = "inicial"
    /\ evento_actual = "NINGUNO"
    /\ rama = "NINGUNA"
    /\ m1_antes = OCIOSA
    /\ fallo_rng = FALSE
    /\ espaciadas = TRUE

\* ValidatedRandom.__init__: the generator is seeded and no batch is held
ValidatedRandom(semillas, tamanos, alfas, intentos) ==
    /\ \E s \in semillas :
           /\ _rng = LcgSeed(s)
           /\ historia = [semilla |-> s, primeros |-> <<>>,
                          sin_resembrar |-> TRUE, tras_seed |-> <<>>,
                          comparable |-> FALSE, a_medio_lote |-> FALSE,
                          llamadas |-> 0]
    /\ _batch_size \in tamanos
    /\ _alpha \in alfas
    /\ _max_attempts \in intentos
    /\ _validated_batch = <<>>
    /\ _batch_iterator = iter(_validated_batch)
    /\ llamada = [op |-> "__init__", exc |-> "NINGUNA", valor |-> Falla,
                  generados |-> 0, rechazados |-> 0, hacia_falta |-> FALSE]

\* a sample log with its sample of time 0 and the horizon it is averaged over
LogInicial(horizontes, niveles) ==
    /\ \E nivel \in niveles : wip_data = << <<0, nivel>> >>
    /\ tiempo_total_simulacion \in horizontes
    /\ avg_wip = Cero
    /\ promedio_index = Cero
    /\ fase = "registro"

\* self.rng = ValidatedRandom(seed): the line and its random source
Construido(horizontes, capacidades1, capacidades2) ==
    /\ LineaConstruida(horizontes, capacidades1, capacidades2, DefectProbs)
    /\ ValidatedRandom({0}, {MaxBatch}, {1}, {MaxAttempts})
    /\ LogInicial({0}, {0})
    /\ ProcesosSinArrancar

Init == Construido(SimTimes, Capacidades1, Capacidades2)

\* the constructor called with capacities that may be negative
InitConfig ==
    Construido(SimTimes, CapacidadesSinValidar1, CapacidadesSinValidar2)

\* the object after a handler becomes the state; an exception ends the run
Instalar(s) ==
    /\ reloj' = s.reloj
    /\ eventos' = s.eventos
    /\ cola1' = s.cola1 /\ cola2' = s.cola2 /\ cola3' = s.cola3
    /\ estado_m1' = s.estado_m1 /\ estado_m2' = s.estado_m2
    /\ estado_m3' = s.estado_m3
    /\ item_en_m1' = s.item_en_m1 /\ item_en_m2' = s.item_en_m2
    /\ item_en_m3' = s.item_en_m3
    /\ stats' = s.stats
    /\ rama' = s.rama
    /\ m1_antes' = estado_m1
    /\ fallo_rng' = s.fallo_rng
    /\ pc' = IF s.err THEN s.exc ELSE "bucle"
    /\ UNCHANGED <<params, rngvars, calcvars, procvars>>

\* while self.reloj < self.sim_time and self.eventos
CondicionBucle == reloj < sim_time /\ eventos /= <<>>

\* the horizon test off by one
FueraDeHorizonte_uno_mas(tiempo_evento) == tiempo_evento > sim_time + 1

\* if tiempo_evento > self.sim_time: break
FueraDeHorizonte(tiempo_evento) == tiempo_evento > sim_time

\* the object once the event is popped and the clock is advanced to it
AlDespachar(p) == [Self EXCEPT !.reloj = p.item.tiempo, !.eventos = p.heap]

\* self._programar_evento(0.0, "LLEGADA_ITEM_COLA1")
ProgramarPrimeraLlegada ==
    /\ pc = "inicial"
    /\ eventos' = heappush(eventos, Evento(0, LLEGADA_ITEM_COLA1)).heap
    /\ pc' = "bucle"
    /\ UNCHANGED <<params, reloj, cola1, cola2, cola3, estado_m1, estado_m2,
                   estado_m3, item_en_m1, item_en_m2, item_en_m3, stats,
                   evento_actual, rama, m1_antes, fallo_rng,
                   espaciadas, rngvars, calcvars,
                   procvars>>

\* the loop condition is false: the results are returned
SalirDelBucle ==
    /\ pc = "bucle"
    /\ ~CondicionBucle
    /\ pc' = "fin"
    /\ UNCHANGED <<params, reloj, eventos, cola1, cola2, cola3, estado_m1,
                   estado_m2, estado_m3, item_en_m1, item_en_m2, item_en_m3,
                   stats, evento_actual, rama, m1_antes, fallo_rng,
                   espaciadas, rngvars, calcvars,
                   procvars>>

\* heapq.heappop raises TypeError
PopFalla ==
    /\ pc = "bucle"
    /\ CondicionBucle
    /\ heappop(eventos).err
    /\ eventos' = heappop(eventos).heap
    /\ pc' = "TypeError"
    /\ UNCHANGED <<params, reloj, cola1, cola2, cola3, estado_m1, estado_m2,
                   estado_m3, item_en_m1, item_en_m2, item_en_m3, stats,
                   evento_actual, rama, m1_antes, fallo_rng,
                   espaciadas, rngvars, calcvars,
                   procvars>>

\* the popped event lies beyond the horizon: break, the results are returned
DescartarYSalir ==
    /\ pc = "bucle"
    /\ CondicionBucle
    /\ LET p == heappop(eventos)
       IN  /\ ~p.err
           /\ FueraDeHorizonte(p.item.tiempo)
           /\ eventos' = p.heap
           /\ evento_actual' = p.item.tipo
    /\ pc' = "fin"
    /\ UNCHANGED <<params, reloj, cola1, cola2, cola3, estado_m1, estado_m2,
                   estado_m3, item_en_m1, item_en_m2, item_en_m3, stats,
                   rama, m1_antes, fallo_rng, espaciadas, rngvars, calcvars,
                   procvars>>

\* the popped event of type tipo is within the horizon
SeDespacha(p, tipo) ==
    /\ ~p.err
    /\ ~FueraDeHorizonte(p.item.tiempo)
    /\ p.item.tipo = tipo

DespacharLlegada ==
    /\ pc = "bucle"
    /\ CondicionBucle
    /\ LET p == heappop(eventos)
       IN  /\ SeDespacha(p, LLEGADA_ITEM_COLA1)
           /\ evento_actual' = p.item.tipo
           /\ espaciadas' = (espaciadas /\ estado_m1 /= PROCESANDO)
           /\ \E u \in SorteosUniformes, g1 \in SorteosGauss :
                  Instalar(_manejar_llegada_item_cola1(AlDespachar(p), u, g1))

DespacharFinM1 ==
    /\ pc = "bucle"
    /\ CondicionBucle
    /\ LET p == heappop(eventos)
       IN  /\ SeDespacha(p, FIN_PROCESO_MAQUINA1)
           /\ evento_actual' = p.item.tipo
           /\ UNCHANGED espaciadas
           /\ \E u \in SorteosUniformes, g2 \in SorteosGauss, g1 \in SorteosGauss :
                  Instalar(_manejar_fin_proceso_maquina1(AlDespachar(p), u, g2, g1))

DespacharFinM2 ==
    /\ pc = "bucle"
    /\ CondicionBucle
    /\ LET p == heappop(eventos)
       IN  /\ SeDespacha(p, FIN_PROCESO_MAQUINA2)
           /\ evento_actual' = p.item.tipo
           /\ UNCHANGED espaciadas
           /\ \E g3 \in SorteosGauss, g2 \in SorteosGauss, g1 \in SorteosGauss :
                  Instalar(_manejar_fin_proceso_maquina2(AlDespachar(p), g3, g2, g1))

DespacharFinM3 ==
    /\ pc = "bucle"
    /\ CondicionBucle
    /\ LET p == heappop(eventos)
       IN  /\ SeDespacha(p, FIN_PROCESO_MAQUINA3)
           /\ evento_actual' = p.item.tipo
           /\ UNCHANGED espaciadas
           /\ \E g3 \in SorteosGauss, g2 \in SorteosGauss :
                  Instalar(_manejar_fin_proceso_maquina3(AlDespachar(p), g3, g2))

Next ==
    \/ ProgramarPrimeraLlegada
    \/ SalirDelBucle
    \/ PopFalla
    \/ DescartarYSalir
    \/ DespacharLlegada
    \/ DespacharFinM1
    \/ DespacharFinM2
    \/ DespacharFinM3

Spec == Init /\ [][Next]_vars

\* the runs of an object built from unvalidated arguments
SpecConfig == InitConfig /\ [][Next]_vars

\* ------------------------------------------------- the run without horizon
\* A run whose horizon is never reached.  No handler reads the counters, the
\* logs or the timestamps of the items, and only the differences between the
\* event times and the clock matter; after each handler the clock is taken as
\* the origin of time and that data is reset, which keeps the states finite.

\* a horizon beyond every time at which an event can be scheduled
SinHorizonte == MaxSimTime + 2

ItemSinHistoria == Item(0, 0, 0)

\* the draws of a run without horizon: the two extreme levels, a negative and
\* a positive duration; the random source does not fail
UniformesVivo == {0, UMax - 1}
GaussVivo == {-1, MaxGauss + 1}

Normalizado(s) ==
    [s EXCEPT
       !.reloj = 0,
       !.eventos = [i \in 1..Len(s.eventos) |->
                       Evento(s.eventos[i].tiempo - s.reloj, s.eventos[i].tipo)],
       !.cola1 = [i \in 1..Len(s.cola1) |-> ItemSinHistoria],
       !.cola2 = [i \in 1..Len(s.cola2) |-> ItemSinHistoria],
       !.cola3 = [i \in 1..Len(s.cola3) |-> ItemSinHistoria],
       !.item_en_m1 = [i \in 1..Len(s.item_en_m1) |-> ItemSinHistoria],
       !.item_en_m2 = [i \in 1..Len(s.item_en_m2) |-> ItemSinHistoria],
       !.item_en_m3 = [i \in 1..Len(s.item_en_m3) |-> ItemSinHistoria],
       !.stats = StatsInicial,
       !.rama = "NINGUNA"]

\* capacities of at least one place, no horizon
InitVivo == Construido({SinHorizonte}, 1..MaxCap1, 1..MaxCap2)

LlegadaVivo ==
    /\ pc = "bucle"
    /\ CondicionBucle
    /\ \E p \in {heappop(eventos)} :
           /\ SeDespacha(p, LLEGADA_ITEM_COLA1)
           /\ evento_actual' = p.item.tipo
           /\ espaciadas' = (espaciadas /\ estado_m1 /= PROCESANDO)
           /\ \E u \in UniformesVivo, g1 \in GaussVivo :
                  \E s0 \in {AlDespachar(p)} :
                      \E s1 \in {_manejar_llegada_item_cola1(s0, u, g1)} :
                          \E s \in {Normalizado(s1)} :
                              Instalar(s)

FinM1Vivo ==
    /\ pc = "bucle"
    /\ CondicionBucle
    /\ \E p \in {heappop(eventos)} :
           /\ SeDespacha(p, FIN_PROCESO_MAQUINA1)
           /\ evento_actual' = p.item.tipo
           /\ UNCHANGED espaciadas
           /\ \E u \in UniformesVivo, g2 \in GaussVivo, g1 \in GaussVivo :
                  \E s0 \in {AlDespachar(p)} :
                      \E s1 \in {_manejar_fin_proceso_maquina1(s0, u, g2, g1)} :
                          \E s \in {Normalizado(s1)} :
                              Instalar(s)

FinM2Vivo ==
    /\ pc = "bucle"
    /\ CondicionBucle
    /\ \E p \in {heappop(eventos)} :
           /\ SeDespacha(p, FIN_PROCESO_MAQUINA2)
           /\ evento_actual' = p.item.tipo
           /\ UNCHANGED espaciadas
           /\ \E g3 \in GaussVivo, g2 \in GaussVivo, g1 \in GaussVivo :
                  \E s0 \in {AlDespachar(p)} :
                      \E s1 \in {_manejar_fin_proceso_maquina2(s0, g3, g2, g1)} :
                          \E s \in {Normalizado(s1)} :
                              Instalar(s)

FinM3Vivo ==
    /\ pc = "bucle"
    /\ CondicionBucle
    /\ \E p \in {heappop(eventos)} :
           /\ SeDespacha(p, FIN_PROCESO_MAQUINA3)
           /\ evento_actual' = p.item.tipo
           /\ UNCHANGED espaciadas
           /\ \E g3 \in GaussVivo, g2 \in GaussVivo :
                  \E s0 \in {AlDespachar(p)} :
                      \E s1 \in {_manejar_fin_proceso_maquina3(s0, g3, g2)} :
                          \E s \in {Normalizado(s1)} :
                              Instalar(s)

NextVivo ==
    \/ ProgramarPrimeraLlegada
    \/ PopFalla
    \/ LlegadaVivo
    \/ FinM1Vivo
    \/ FinM2Vivo
    \/ FinM3Vivo

\* the loop is a running program: it takes its next step whenever it has one
SpecVivo == InitVivo /\ [][NextVivo]_vars /\ WF_vars(NextVivo)

\* ------------------------------------------------- the run that blocks
\* A run with a horizon long enough for stage 1 and stage 2 to block and to be
\* unblocked, with capacities of at least one place.  The clock, the counters
\* and the items are kept as they are; the draws are the two extreme levels and
\* a zero and a positive duration, and the random source does not fail.
HorizonteLargo == MaxSimTime + 3

InitLargo == Construido({HorizonteLargo}, 1..MaxCap1, 1..MaxCap2)

LlegadaLargo ==
    /\ pc = "bucle"
    /\ CondicionBucle
    /\ \E p \in {heappop(eventos)} :
           /\ SeDespacha(p, LLEGADA_ITEM_COLA1)
           /\ evento_actual' = p.item.tipo
           /\ espaciadas' = (espaciadas /\ estado_m1 /= PROCESANDO)
           /\ \E u \in UniformesVivo, g1 \in GaussVivo :
                  Instalar(_manejar_llegada_item_cola1(AlDespachar(p), u, g1))

FinM1Largo ==
    /\ pc = "bucle"
    /\ CondicionBucle
    /\ \E p \in {heappop(eventos)} :
           /\ SeDespacha(p, FIN_PROCESO_MAQUINA1)
           /\ evento_actual' = p.item.tipo
           /\ UNCHANGED espaciadas
           /\ \E u \in UniformesVivo, g2 \in GaussVivo, g1 \in GaussVivo :
                  Instalar(_manejar_fin_proceso_maquina1(AlDespachar(p), u, g2, g1))

FinM2Largo ==
    /\ pc = "bucle"
    /\ CondicionBucle
    /\ \E p \in {heappop(eventos)} :
           /\ SeDespacha(p, FIN_PROCESO_MAQUINA2)
           /\ evento_actual' = p.item.tipo
           /\ UNCHANGED espaciadas
           /\ \E g3 \in GaussVivo, g2 \in GaussVivo, g1 \in GaussVivo :
                  Instalar(_manejar_fin_proceso_maquina2(AlDespachar(p), g3, g2, g1))

FinM3Largo ==
    /\ pc = "bucle"
    /\ CondicionBucle
    /\ \E p \in {heappop(eventos)} :
           /\ SeDespacha(p, FIN_PROCESO_MAQUINA3)
           /\ evento_actual' = p.item.tipo
           /\ UNCHANGED espaciadas
           /\ \E g3 \in GaussVivo, g2 \in GaussVivo :
                  Instalar(_manejar_fin_proceso_maquina3(AlDespachar(p), g3, g2))

NextLargo ==
    \/ ProgramarPrimeraLlegada
    \/ SalirDelBucle
    \/ PopFalla
    \/ DescartarYSalir
    \/ LlegadaLargo
    \/ FinM1Largo
    \/ FinM2Largo
    \/ FinM3Largo

SpecLargo == InitLargo /\ [][NextLargo]_vars

\* -------------------------------------------- the run of the processes
\* run_simulation builds the buffers and starts the three processes; env.run
\* then takes the events of env_queue one by one.  se_cuenta tells whether the
\* counters are kept: no process reads them, and in the run that looks at the
\* progress of the line they are reset after every event, with the box ids.

\* the most units maquina1 produces in a run that keeps the counters
MaxProducidos == CARAMELOS_POR_CAJA + MaxCap2 + 1

\* simpy.Container(env, init=0, capacity=buffer1_cap_param),
\* simpy.Store(env, capacity=buffer2_cap_param) and the three env.process()
ProcesosCreados(capacidades1, capacidades2, probabilidades, contar) ==
    /\ \E c \in capacidades1 :
           buffer1 = [capacity |-> c, level |-> 0,
                      put_queue |-> <<>>, get_queue |-> <<>>]
    /\ \E c \in capacidades2 :
           buffer2 = [capacity |-> c, items |-> <<>>,
                      put_queue |-> <<>>, get_queue |-> <<>>]
    /\ defect_prob_param \in probabilidades
    /\ env_queue = <<[delay |-> 0, tipo |-> "Initialize", proc |-> MAQUINA1],
                     [delay |-> 0, tipo |-> "Initialize", proc |-> MAQUINA2],
                     [delay |-> 0, tipo |-> "Initialize", proc |-> MAQUINA3]>>
    /\ current_stats = StatsProcesos
    /\ cajas_iniciadas_m2 = 0
    /\ ultimo_sorteo = <<>>
    /\ se_cuenta = contar

InitProcesos ==
    /\ LineaConstruida({0}, {0}, {0}, {0})
    /\ ValidatedRandom({0}, {MaxBatch}, {1}, {MaxAttempts})
    /\ LogInicial({0}, {0})
    /\ ProcesosCreados(CapacidadesBuffer1, CapacidadesBuffer2, DefectProbs, TRUE)

\* env.step() takes the event of type tipo that resumes proc
Toca(tipo, proc) ==
    /\ env_queue /= <<>>
    /\ Head(env_queue).tipo = tipo
    /\ Head(env_queue).proc = proc

\* the objects once the first event is popped and the clock is advanced to it
AlPaso ==
    LET ahora == Head(env_queue).delay
        resto == Tail(env_queue)
    IN  [Mundo EXCEPT !.queue = [i \in DOMAIN resto |->
                                    [resto[i] EXCEPT !.delay = @ - ahora]]]

SinContadores(w) ==
    [w EXCEPT !.stats = StatsProcesos,
              !.iniciadas = 0,
              !.buffer2.items = [i \in DOMAIN @ |-> 0],
              !.buffer2.put_queue = [i \in DOMAIN @ |-> [@[i] EXCEPT !.item = 0]]]

InstalarMundo(w0) ==
    /\ \E w \in {IF se_cuenta THEN w0 ELSE SinContadores(w0)} :
           /\ buffer1' = w.buffer1
           /\ buffer2' = w.buffer2
           /\ env_queue' = w.queue
           /\ current_stats' = w.stats
           /\ cajas_iniciadas_m2' = w.iniciadas
           /\ ultimo_sorteo' = w.sorteo
    /\ UNCHANGED <<defect_prob_param, se_cuenta>>
    /\ UNCHANGED <<lineavars, rngvars, calcvars>>

IniciarMaquina1 ==
    /\ Toca("Initialize", MAQUINA1)
    /\ \E d \in DuracionesProceso : InstalarMundo(maquina1_inicio(AlPaso, d))

IniciarMaquina2 ==
    /\ Toca("Initialize", MAQUINA2)
    /\ InstalarMundo(maquina2_inicio(AlPaso))

IniciarMaquina3 ==
    /\ Toca("Initialize", MAQUINA3)
    /\ InstalarMundo(maquina3_inicio(AlPaso))

M1FinTimeout ==
    /\ Toca("Timeout", MAQUINA1)
    /\ current_stats.producidos_m1 < MaxProducidos
    /\ \E u \in ValoresUniformes, d \in DuracionesProceso :
           InstalarMundo(maquina1_tras_timeout(AlPaso, u, d))

\* the callbacks of the put: buffer1._trigger_get, then the process
M1FinPut ==
    /\ Toca("ContainerPut", MAQUINA1)
    /\ \E d \in DuracionesProceso :
           InstalarMundo(maquina1_tras_put(Container_trigger_get(AlPaso), d))

\* the callbacks of the get: buffer1._trigger_put, then the process
M2FinGet ==
    /\ Toca("ContainerGet", MAQUINA2)
    /\ \E d \in DuracionesProceso :
           InstalarMundo(maquina2_tras_get(Container_trigger_put(AlPaso), d))

M2FinTimeout ==
    /\ Toca("Timeout", MAQUINA2)
    /\ InstalarMundo(maquina2_tras_timeout(AlPaso))

\* the callbacks of the put: buffer2._trigger_get, then the process
M2FinPut ==
    /\ Toca("StorePut", MAQUINA2)
    /\ InstalarMundo(maquina2_tras_put(Store_trigger_get(AlPaso)))

\* the callbacks of the get: buffer2._trigger_put, then the process
M3FinGet ==
    /\ Toca("StoreGet", MAQUINA3)
    /\ \E d \in DuracionesProceso :
           InstalarMundo(maquina3_tras_get(Store_trigger_put(AlPaso), d))

M3FinTimeout ==
    /\ Toca("Timeout", MAQUINA3)
    /\ InstalarMundo(maquina3_tras_timeout(AlPaso))

NextProcesos ==
    \/ IniciarMaquina1
    \/ IniciarMaquina2
    \/ IniciarMaquina3
    \/ M1FinTimeout
    \/ M1FinPut
    \/ M2FinGet
    \/ M2FinTimeout
    \/ M2FinPut
    \/ M3FinGet
    \/ M3FinTimeout

SpecProcesos == InitProcesos /\ [][NextProcesos]_vars

\* the run whose counters are not kept: the loop of env.run goes on as long as
\* there is an event
InitProcesosVivo ==
    /\ LineaConstruida({0}, {0}, {0}, {0})
    /\ ValidatedRandom({0}, {MaxBatch}, {1}, {MaxAttempts})
    /\ LogInicial({0}, {0})
    /\ ProcesosCreados(CapacidadesBuffer1, CapacidadesBuffer2, DefectProbs, FALSE)

SpecProcesosVivo ==
    InitProcesosVivo /\ [][NextProcesos]_vars /\ WF_vars(NextProcesos)

\* ------------------------------------------- the calls of ValidatedRandom
\* A ValidatedRandom object used on its own: its caller calls random() and
\* seed() in any order.  historia keeps the seed of the constructor, the
\* results of the first calls of random() up to the first seed() (primeros),
\* and the results of the calls since the last seed() when that call gave the
\* seed of the constructor again (tras_seed); a result is the value returned,
\* or Falla when ValidationError was raised.

\* the line is built but not run
InitRng ==
    /\ LineaConstruida({0}, {0}, {0}, {0})
    /\ ValidatedRandom(Semillas, 0..MaxBatch, Alphas, 0..MaxAttempts)
    /\ LogInicial({0}, {0})
    /\ ProcesosSinArrancar

Resultado(o) == IF o.exc = "NINGUNA" THEN o.valor ELSE Falla

Registrar(log, r) == IF Len(log) < MaxLlamadas THEN Append(log, r) ELSE log

InstalarRng(o) ==
    /\ _rng' = o._rng
    /\ _validated_batch' = o._validated_batch
    /\ _batch_iterator' = o._batch_iterator
    /\ UNCHANGED <<_batch_size, _alpha, _max_attempts>>

LlamarRandom ==
    /\ \E o \in {random(Rng)} :
           /\ InstalarRng(o)
           /\ llamada' = [op |-> "random", exc |-> o.exc, valor |-> o.valor,
                          generados |-> o.generados,
                          rechazados |-> o.rechazados,
                          hacia_falta |-> ~HayMas(_batch_iterator)]
           /\ historia' =
                  [historia EXCEPT
                     !.primeros = IF historia.sin_resembrar
                                  THEN Registrar(@, Resultado(o)) ELSE @,
                     !.tras_seed = IF historia.comparable
                                   THEN Registrar(@, Resultado(o)) ELSE @,
                     !.llamadas = IF @ < MaxLlamadas THEN @ + 1 ELSE @]
    /\ UNCHANGED <<lineavars, calcvars, procvars>>

LlamarSeed ==
    /\ \E value \in Semillas :
           \E o \in {seed(Rng, value)} :
               /\ InstalarRng(o)
               /\ llamada' = [op |-> "seed", exc |-> "NINGUNA", valor |-> Falla,
                              generados |-> 0, rechazados |-> 0,
                              hacia_falta |-> FALSE]
               /\ historia' =
                      [historia EXCEPT
                         !.sin_resembrar = FALSE,
                         !.comparable = (value = historia.semilla),
                         !.a_medio_lote = HayMas(_batch_iterator),
                         !.tras_seed = <<>>]
    /\ UNCHANGED <<lineavars, calcvars, procvars>>

NextRng == LlamarRandom \/ LlamarSeed

SpecRng == InitRng /\ [][NextRng]_vars

\* --------------------------------------------- the averages of a log
\* A log of (time, level) samples grows as _actualizar_wip appends to it:
\* the clock never goes back and never passes the horizon.  At the end of
\* the run both averaging functions are applied to it.
InitPromedio ==
    /\ LineaConstruida({0}, {0}, {0}, {0})
    /\ ValidatedRandom({0}, {MaxBatch}, {1}, {MaxAttempts})
    /\ LogInicial(SimTimes, 0..MaxNivel)
    /\ ProcesosSinArrancar

\* self.stats["wip_buffer1_data"].append((tiempo_actual, wip1_actual))
AgregarMuestra ==
    /\ fase = "registro"
    /\ Len(wip_data) < MaxMuestras
    /\ \E t \in wip_data[Len(wip_data)][1]..tiempo_total_simulacion,
          nivel \in 0..MaxNivel :
           wip_data' = Append(wip_data, <<t, nivel>>)
    /\ UNCHANGED <<tiempo_total_simulacion, avg_wip, promedio_index, fase>>
    /\ UNCHANGED <<lineavars, rngvars, procvars>>

CalcularPromedios ==
    /\ fase = "registro"
    /\ avg_wip' = calcular_wip_promedio(wip_data, tiempo_total_simulacion)
    /\ promedio_index' =
           calculate_time_weighted_average(wip_data, tiempo_total_simulacion)
    /\ fase' = "calculado"
    /\ UNCHANGED <<wip_data, tiempo_total_simulacion>>
    /\ UNCHANGED <<lineavars, rngvars, procvars>>

NextPromedio == AgregarMuestra \/ CalcularPromedios

SpecPromedio == InitPromedio /\ [][NextPromedio]_vars

TypeOK ==
    /\ pc \in {"inicial", "bucle", "fin", "TypeError", "ValidationError"}
    /\ fallo_rng \in BOOLEAN /\ espaciadas \in BOOLEAN
    /\ estado_m1 \in EstadoMaquina /\ estado_m2 \in EstadoMaquina
    /\ estado_m3 \in EstadoMaquina
    /\ Len(item_en_m1) <= 1 /\ Len(item_en_m2) <= 1 /\ Len(item_en_m3) <= 1

\* ------------------------------------------------------------ properties
\* the class has no accumulator attribute; the scripts read its length as 0
acumulador_caramelos == <<>>

\* the class has no caramelos_por_caja attribute; the scripts multiply by 50
caramelos_por_caja == BATCH_SIZE

Tiempos(h) == {h[i].tiempo : i \in DOMAIN h}

Pendientes(h, tipo) == {i \in DOMAIN h : h[i].tipo = tipo}

\* a handler ran to completion in this step
HandlerCompleto(tipo) == pc = "bucle" /\ pc' = "bucle" /\ evento_actual' = tipo

\* C1: when ejecutar_simulacion returns, the good units equal BATCH_SIZE times
\* (boxes packed + boxes waiting in cola2 + the box held by stage 2) plus the
\* units left in the accumulator.
C1_Conservacion ==
    pc = "fin" =>
        stats.caramelos_a_buffer1 =
            BATCH_SIZE * (stats.cajas_empaquetadas_m2 + Len(cola2)
                          + (IF item_en_m2 /= None THEN 1 ELSE 0))
            + Len(acumulador_caramelos)

\* C2: the clock never moves backward, and whenever it changes it is set to
\* the smallest scheduled time among the pending events.
C2_RelojMonotono ==
    [][/\ reloj' >= reloj
       /\ reloj' /= reloj =>
            /\ eventos /= <<>>
            /\ \A t \in Tiempos(eventos) : reloj' <= t
            /\ reloj' \in Tiempos(eventos)]_vars

C2_Witness ==
    /\ pc = "bucle"
    /\ reloj = sim_time /\ sim_time > 0
    /\ stats.cajas_selladas_m3 > 0

\* C3: scheduling an event whose time equals that of a pending event always
\* succeeds (the tie is broken by an insertion counter, never by comparing
\* the event objects): no push or pop of the event queue ever raises.
C3_EmpateNuncaFalla == pc /= "TypeError"

\* C4: the clock never exceeds the horizon, and popping an event whose time
\* is beyond the horizon changes no clock, counter, queue or machine state.
C4_NadaTrasElHorizonte ==
    /\ [](reloj <= sim_time)
    /\ [][(/\ pc = "bucle" /\ CondicionBucle
           /\ ~heappop(eventos).err
           /\ heappop(eventos).item.tiempo > sim_time)
          => UNCHANGED <<reloj, cola1, cola2, cola3, estado_m1, estado_m2,
                         estado_m3, item_en_m1, item_en_m2, item_en_m3,
                         stats>>]_vars

C4_Witness ==
    /\ pc = "fin"
    /\ reloj < sim_time
    /\ stats.producidos_m1 > 0
    /\ \A t \in Tiempos(eventos) : t > sim_time

\* C5: when ejecutar_simulacion returns, no event scheduled at a time within
\* the horizon (time <= sim_time) is still pending.
C5_TodoDespachado ==
    pc = "fin" => \A t \in Tiempos(eventos) : t > sim_time

\* C7: every pending completion event of a stage is scheduled at a time that
\* is not before the clock: the duration added to the clock was >= 0.
C7_SinDuracionNegativa ==
    \A i \in DOMAIN eventos :
        eventos[i].tipo /= LLEGADA_ITEM_COLA1 => eventos[i].tiempo >= reloj

C7_Witness ==
    /\ pc = "bucle"
    /\ \E i \in DOMAIN eventos :
           /\ eventos[i].tipo = FIN_PROCESO_MAQUINA2
           /\ eventos[i].tiempo = reloj
    /\ item_en_m2 /= None
    /\ item_en_m2[1].tiempo_llegada_cola_actual = reloj

\* C8: an arrival that finds stage 1 busy and cola1 full adds exactly 1 to
\* items_perdidos_buffer1 and leaves the queues, the machine states and the
\* held items as they were; with room in cola1 the unit is appended to cola1
\* and the lost counter is unchanged.
C8_PerdidaSiLleno ==
    [][(HandlerCompleto(LLEGADA_ITEM_COLA1) /\ estado_m1 /= OCIOSA) =>
         IF Len(cola1) >= buffer1_capacity
         THEN /\ stats'.items_perdidos_buffer1 = stats.items_perdidos_buffer1 + 1
              /\ UNCHANGED <<cola1, cola2, cola3, estado_m1, estado_m2,
                             estado_m3, item_en_m1, item_en_m2, item_en_m3>>
         ELSE /\ cola1' = Append(cola1, Item(reloj', reloj', stats.producidos_m1))
              /\ stats'.items_perdidos_buffer1 = stats.items_perdidos_buffer1
              /\ UNCHANGED <<cola2, cola3, estado_m1, estado_m2,
                             estado_m3, item_en_m1, item_en_m2, item_en_m3>>]_vars

C8_Witness ==
    /\ pc = "bucle"
    /\ evento_actual = LLEGADA_ITEM_COLA1
    /\ rama = "PERDIDO"
    /\ m1_antes /= OCIOSA
    /\ buffer1_capacity = 0
    /\ stats.items_perdidos_buffer1 >= 2

\* C9: an arrival that finds stage 1 idle starts the new unit at once: after
\* the handler stage 1 is PROCESANDO and holds that unit, a
\* FIN_PROCESO_MAQUINA1 event is pending, cola1 and the lost counter are
\* unchanged.
C9_InicioInmediato ==
    [][(HandlerCompleto(LLEGADA_ITEM_COLA1) /\ estado_m1 = OCIOSA) =>
         /\ estado_m1' = PROCESANDO
         /\ item_en_m1' = <<Item(reloj', reloj', stats.producidos_m1)>>
         /\ Pendientes(eventos', FIN_PROCESO_MAQUINA1) /= {}
         /\ cola1' = cola1
         /\ stats'.items_perdidos_buffer1 = stats.items_perdidos_buffer1]_vars

C11_EmpaquetadasCubrenSelladas ==
    stats.cajas_empaquetadas_m2 >= stats.cajas_selladas_m3

C11_Witness ==
    /\ stats.cajas_selladas_m3 >= 1
    /\ stats.cajas_empaquetadas_m2 = stats.cajas_selladas_m3

Ocupada(estado) == estado \in {PROCESANDO, BLOQUEADA}

\* C12: between handlers and at return, a stage that holds an item is
\* PROCESANDO or BLOQUEADA, and a stage that is BLOQUEADA holds an item.
C12_EstadoDeMaquina ==
    pc \in {"bucle", "fin"} =>
        /\ item_en_m1 /= None => Ocupada(estado_m1)
        /\ item_en_m2 /= None => Ocupada(estado_m2)
        /\ item_en_m3 /= None => Ocupada(estado_m3)
        /\ estado_m1 = BLOQUEADA => item_en_m1 /= None
        /\ estado_m2 = BLOQUEADA => item_en_m2 /= None
        /\ estado_m3 = BLOQUEADA => item_en_m3 /= None

C12_Witness ==
    /\ pc = "bucle"
    /\ estado_m1 = BLOQUEADA /\ item_en_m1 /= None
    /\ estado_m2 = PROCESANDO /\ item_en_m2 /= None
    /\ estado_m3 = INACTIVA_SIN_ENTRADA /\ item_en_m3 = None

\* C13: no queue ever holds more than its capacity; cola3 shares the capacity
\* of cola2.
C13_ColasAcotadas ==
    /\ Len(cola1) <= buffer1_capacity
    /\ Len(cola2) <= buffer2_capacity
    /\ Len(cola3) <= buffer2_capacity

C13_Witness ==
    /\ buffer1_capacity >= 1 /\ Len(cola1) = buffer1_capacity
    /\ Len(cola2) = buffer2_capacity
    /\ buffer2_capacity >= 1 /\ Len(cola3) = buffer2_capacity

\* C17: once a draw of the random source has failed, the run is aborted by
\* ValidationError: no later handler runs on a substituted value and no
\* results are returned.
C17_FalloDelRngEsFatal ==
    /\ fallo_rng => pc = "ValidationError"
    /\ pc = "ValidationError" => fallo_rng

C17_Witness ==
    /\ pc = "ValidationError"
    /\ fallo_rng
    /\ evento_actual = FIN_PROCESO_MAQUINA2
    /\ stats.cajas_empaquetadas_m2 >= 1
    /\ item_en_m3 /= None

ConfiguracionInvalida == buffer1_capacity < 0 \/ buffer2_capacity < 0

\* C16: an object built with a negative buffer capacity never starts a run:
\* ejecutar_simulacion schedules nothing and dispatches no event.
C16_ConfiguracionInvalidaNoArranca ==
    ConfiguracionInvalida => (pc = "inicial" /\ evento_actual = "NINGUNO")

\* C18: in a run where every arrival so far was dispatched with stage 1 not
\* processing (espaciadas), no unit has been lost, and a stage 1 that has
\* worked and holds nothing is INACTIVA_SIN_ENTRADA.
C18_InanicionDeM1 ==
    (espaciadas /\ pc \in {"bucle", "fin"}) =>
        /\ stats.items_perdidos_buffer1 = 0
        /\ (stats.producidos_m1 >= 1 /\ item_en_m1 = None)
               => estado_m1 = INACTIVA_SIN_ENTRADA

\* the items appended to cola2 so far: those still waiting, the one stage 2
\* is working on, and those stage 2 has finished
ColocadosEnCola2 ==
    Len(cola2) + stats.cajas_empaquetadas_m2
    + (IF estado_m2 = PROCESANDO /\ item_en_m2 /= None THEN 1 ELSE 0)

\* C19: every item placed in cola2 stands for BATCH_SIZE good units, so
\* BATCH_SIZE times the items ever placed in cola2 is at most
\* caramelos_a_buffer1.
C19_LotesCompletos ==
    BATCH_SIZE * ColocadosEnCola2 <= stats.caramelos_a_buffer1

\* C20: when ejecutar_simulacion returns, the balance of the test scripts
\* closes: (boxes packed + boxes in cola2) * caramelos_por_caja plus the
\* units in the accumulator equals caramelos_a_buffer1.
C20_BalanceDeLosScripts ==
    pc = "fin" =>
        (stats.cajas_empaquetadas_m2 + Len(cola2)) * caramelos_por_caja
            + Len(acumulador_caramelos)
        = stats.caramelos_a_buffer1

Abortada == pc \in {"TypeError", "ValidationError"}

\* C14: in a run without horizon and with capacities of at least 1, whenever
\* stage 1 is BLOQUEADA it later is not BLOQUEADA, unless an exception ends
\* the dispatching of events.
C14_M1SeDesbloquea ==
    (pc = "bucle" /\ estado_m1 = BLOQUEADA)
        ~> (estado_m1 /= BLOQUEADA \/ Abortada)

\* C15: in a run without horizon and with capacities of at least 1, whenever
\* stage 2 is BLOQUEADA it later is not BLOQUEADA, unless an exception ends
\* the dispatching of events; and stage 2 leaves BLOQUEADA only in the
\* handling of a FIN_PROCESO_MAQUINA3, which puts its held item at the end
\* of cola3.
C15_M2SeDesbloquea ==
    /\ (pc = "bucle" /\ estado_m2 = BLOQUEADA)
           ~> (estado_m2 /= BLOQUEADA \/ Abortada)
    /\ [][(estado_m2 = BLOQUEADA /\ estado_m2' /= BLOQUEADA) =>
             /\ evento_actual' = FIN_PROCESO_MAQUINA3
             /\ cola3' /= <<>>
             /\ cola3'[Len(cola3')] = item_en_m2[1]]_vars

C15_Witness ==
    /\ pc = "bucle"
    /\ evento_actual = FIN_PROCESO_MAQUINA3
    /\ Len(cola3) = buffer2_capacity
    /\ estado_m3 = PROCESANDO
    /\ estado_m2 = PROCESANDO /\ item_en_m2 /= None

\* the items alive in the line: those waiting in the queues and those held by
\* the stages
ItemsEnLinea ==
    cola1 \o cola2 \o cola3 \o item_en_m1 \o item_en_m2 \o item_en_m3

\* C21: no two items created during one run have the same id: the items
\* alive in the line have pairwise different ids.
C21_IdsUnicos ==
    \A i, j \in DOMAIN ItemsEnLinea :
        i /= j => ItemsEnLinea[i].id /= ItemsEnLinea[j].id

\* C22: random() only returns numbers of a batch that passed the validation:
\* the value returned is the element just served of the batch being iterated,
\* and that batch passes _run_tests.
C22_SoloLotesValidados ==
    (llamada.op = "random" /\ llamada.exc = "NINGUNA") =>
        /\ _batch_iterator.lista = _validated_batch
        /\ _run_tests(_validated_batch)
        /\ _batch_iterator.pos \in 1..Len(_validated_batch)
        /\ llamada.valor = _validated_batch[_batch_iterator.pos]

C22_Witness ==
    /\ llamada.op = "random" /\ llamada.exc = "NINGUNA"
    /\ llamada.rechazados >= 1
    /\ ~historia.sin_resembrar
    /\ \E k \in DOMAIN historia.primeros : historia.primeros[k] = Falla

\* C23: random() raises ValidationError exactly when a new batch was needed
\* and max_attempts batches in a row failed the validation, after generating
\* exactly max_attempts batches; with max_attempts = 0 the first call raises
\* it without generating a batch.
C23_ErrorTrasMaxAttempts ==
    llamada.op = "random" =>
        /\ llamada.exc = "ValidationError" <=>
               (llamada.hacia_falta /\ llamada.rechazados = _max_attempts)
        /\ llamada.exc = "ValidationError" =>
               llamada.generados = _max_attempts
        /\ (_max_attempts = 0 /\ historia.llamadas = 1) =>
               (llamada.exc = "ValidationError" /\ llamada.generados = 0)

C23_Witness ==
    /\ llamada.op = "random" /\ llamada.exc = "ValidationError"
    /\ _max_attempts = MaxAttempts
    /\ llamada.generados = MaxAttempts
    /\ _batch_size >= 1
    /\ _validated_batch /= <<>>

\* C24: seed(s) with the seed s of the constructor restarts the sequence: the
\* results of random() after it are, call by call, the results of the first
\* calls after construction.
C24_SeedReinicia ==
    historia.comparable =>
        \A k \in 1..MaxLlamadas :
            (k <= Len(historia.primeros) /\ k <= Len(historia.tras_seed)) =>
                historia.primeros[k] = historia.tras_seed[k]

C24_Witness ==
    /\ historia.comparable /\ historia.a_medio_lote
    /\ Len(historia.primeros) >= 2 /\ Len(historia.tras_seed) >= 2
    /\ historia.tras_seed[1] /= Falla
    /\ historia.tras_seed[1] /= historia.tras_seed[2]

\* C25: every handler that runs to completion leaves, as the last sample of
\* estado_maquinas_tiempo and of niveles_colas_tiempo, the clock with the
\* current machine states and the clock with the current queue depths.
C25_MuestraTrasCadaHandler ==
    [][(pc = "bucle" /\ pc' = "bucle") =>
         /\ stats'.estado_maquinas_tiempo =
                << <<reloj', estado_m1', estado_m2', estado_m3'>> >>
         /\ stats'.niveles_colas_tiempo =
                << <<reloj', Len(cola1'), Len(cola2'), Len(cola3')>> >>]_vars

\* the quotients a and b are the same number
MismoValor(a, b) == a.num * b.den = b.num * a.den

\* sum over i < n of l_i * (t_{i+1} - t_i), from position i on
RECURSIVE AreaEntreMuestras(_, _)
AreaEntreMuestras(datos, i) ==
    IF i >= Len(datos) THEN 0
    ELSE datos[i][2] * (datos[i + 1][1] - datos[i][1])
         + AreaEntreMuestras(datos, i + 1)

\* C26: for a log (t_1, l_1) ... (t_n, l_n) with non-decreasing times <= T
\* and T > 0, calcular_wip_promedio returns
\* (sum over i < n of l_i * (t_{i+1} - t_i) + l_n * (T - t_n)) / T, and
\* calculate_time_weighted_average returns the same value.
C26_PromedioPonderado ==
    (fase = "calculado" /\ tiempo_total_simulacion > 0) =>
        LET n == Len(wip_data)
            T == tiempo_total_simulacion
        IN  /\ MismoValor(avg_wip,
                          Cociente(AreaEntreMuestras(wip_data, 1)
                                   + wip_data[n][2] * (T - wip_data[n][1]), T))
            /\ MismoValor(promedio_index, avg_wip)

C26_Witness ==
    /\ fase = "calculado" /\ tiempo_total_simulacion > 0
    /\ Len(wip_data) = MaxMuestras
    /\ wip_data[MaxMuestras][1] < tiempo_total_simulacion
    /\ wip_data[MaxMuestras][2] > 0
    /\ wip_data[2][2] > wip_data[MaxMuestras][2]
    /\ wip_data[2][1] > 0
    /\ avg_wip.num > 0

\* C27: every sealing appends exactly one system time, the clock of the
\* FIN_PROCESO_MAQUINA3 event minus the system-arrival timestamp of the
\* sealed item; nothing else appends to tiempos_sistema_caja, every recorded
\* value is >= 0, and the list is as long as cajas_selladas_m3.
C27_TiempoEnSistemaPorCaja ==
    /\ [](/\ stats.tiempos_sistema_caja.len = stats.cajas_selladas_m3
          /\ \A k \in DOMAIN stats.tiempos_sistema_caja.ultimo :
                 stats.tiempos_sistema_caja.ultimo[k] >= 0)
    /\ [][/\ stats'.cajas_selladas_m3 /= stats.cajas_selladas_m3 =>
               /\ evento_actual' = FIN_PROCESO_MAQUINA3
               /\ item_en_m3 /= None
               /\ stats'.cajas_selladas_m3 = stats.cajas_selladas_m3 + 1
               /\ stats'.tiempos_sistema_caja =
                      [len |-> stats.tiempos_sistema_caja.len + 1,
                       ultimo |-> <<reloj' - item_en_m3[1].tiempo_llegada_sistema>>]
          /\ stats'.cajas_selladas_m3 = stats.cajas_selladas_m3 =>
               stats'.tiempos_sistema_caja = stats.tiempos_sistema_caja]_vars

C27_Witness ==
    /\ evento_actual = FIN_PROCESO_MAQUINA3
    /\ stats.cajas_selladas_m3 >= 2
    /\ stats.tiempos_sistema_caja.len >= 2
    /\ stats.tiempos_sistema_caja.ultimo /= <<>>
    /\ stats.tiempos_sistema_caja.ultimo[1] > 0
    /\ stats.tiempos_sistema_caja.ultimo[1] < reloj

\* C28: after a FIN_PROCESO_MAQUINA2 handler that ran to completion, stage 1
\* is not BLOQUEADA while cola2 has room; a stage 1 that leaves BLOQUEADA in
\* it has put its held unit at the end of cola2 and has taken the head of
\* cola1, or is OCIOSA when cola1 is empty.
C28_DesbloqueoEnCascadaDeM1 ==
    [][HandlerCompleto(FIN_PROCESO_MAQUINA2) =>
         /\ ~(estado_m1' = BLOQUEADA /\ Len(cola2') < buffer2_capacity)
         /\ (estado_m1 = BLOQUEADA /\ estado_m1' /= BLOQUEADA) =>
                /\ cola2' /= <<>>
                /\ cola2'[Len(cola2')] = EnCola(item_en_m1[1], reloj')
                /\ IF cola1 /= <<>>
                   THEN /\ estado_m1' = PROCESANDO
                        /\ item_en_m1' = <<Head(cola1)>>
                        /\ cola1' = Tail(cola1)
                   ELSE /\ estado_m1' = OCIOSA
                        /\ item_en_m1' = None]_vars

C28_Witness ==
    /\ pc = "bucle"
    /\ evento_actual = FIN_PROCESO_MAQUINA2
    /\ m1_antes = BLOQUEADA
    /\ estado_m1 = PROCESANDO
    /\ Len(cola2) = buffer2_capacity

\* a stage that is neither working nor holding a finished item
SinTrabajo(estado) == estado \in {OCIOSA, INACTIVA_SIN_ENTRADA}

\* C29: after every handler that ran to completion, stage 2 is not OCIOSA or
\* INACTIVA_SIN_ENTRADA while cola2 is non-empty.
C29_M2ArrancaConCola2 ==
    [][(pc = "bucle" /\ pc' = "bucle") =>
         ~(SinTrabajo(estado_m2') /\ cola2' /= <<>>)]_vars

\* C30: after every handler that ran to completion, stage 3 is not OCIOSA or
\* INACTIVA_SIN_ENTRADA while cola3 is non-empty.
C30_M3ArrancaConCola3 ==
    [][(pc = "bucle" /\ pc' = "bucle") =>
         ~(SinTrabajo(estado_m3') /\ cola3' /= <<>>)]_vars

\* a handler has just returned leaving a unit in cola3 behind a working stage 3
C30_Witness ==
    /\ pc = "bucle"
    /\ evento_actual \in {FIN_PROCESO_MAQUINA2, FIN_PROCESO_MAQUINA3}
    /\ cola3 /= <<>>
    /\ estado_m3 = PROCESANDO

\* C31: after every handler that ran to completion, stage 1 is not OCIOSA while
\* cola1 is non-empty.
C31_M1OciosaSoloSinCola1 ==
    [][(pc = "bucle" /\ pc' = "bucle") =>
         ~(estado_m1' = OCIOSA /\ cola1' /= <<>>)]_vars

\* q is p with zero or more items appended: nothing was removed from p
SoloCrece(p, q) == Len(p) <= Len(q) /\ SubSeq(q, 1, Len(p)) = p

Ultimo(q) == q[Len(q)]

Uno(b) == IF b THEN 1 ELSE 0

\* C32: a blocked stage stops and keeps its finished item.  Between handlers
\* a stage that is BLOQUEADA holds an item and has no completion pending; the
\* handler that blocks it leaves the finished item in it and takes nothing
\* from its input queue; a handler that leaves it blocked leaves it the same
\* item and removes nothing from its input queue; the handler that unblocks it
\* appends that item once to the end of the downstream queue and does not
\* count it again in caramelos_a_buffer1 (cajas_empaquetadas_m2 for stage 2).
C32_BloqueadaRetieneSuItem ==
    /\ [](pc = "bucle" =>
            /\ estado_m1 = BLOQUEADA =>
                   /\ item_en_m1 /= None
                   /\ Pendientes(eventos, FIN_PROCESO_MAQUINA1) = {}
            /\ estado_m2 = BLOQUEADA =>
                   /\ item_en_m2 /= None
                   /\ Pendientes(eventos, FIN_PROCESO_MAQUINA2) = {})
    /\ [][(pc = "bucle" /\ pc' = "bucle") =>
            /\ (estado_m1 /= BLOQUEADA /\ estado_m1' = BLOQUEADA) =>
                   /\ item_en_m1' = item_en_m1
                   /\ cola1' = cola1
                   /\ stats'.caramelos_a_buffer1 = stats.caramelos_a_buffer1 + 1
            /\ (estado_m1 = BLOQUEADA /\ estado_m1' = BLOQUEADA) =>
                   /\ item_en_m1' = item_en_m1
                   /\ SoloCrece(cola1, cola1')
                   /\ stats'.caramelos_a_buffer1 = stats.caramelos_a_buffer1
            /\ (estado_m1 = BLOQUEADA /\ estado_m1' /= BLOQUEADA) =>
                   /\ cola2' /= <<>>
                   /\ Ultimo(cola2') = EnCola(item_en_m1[1], reloj')
                   /\ Len(cola2') = Len(cola2) - Uno(estado_m2' = PROCESANDO) + 1
                   /\ stats'.caramelos_a_buffer1 = stats.caramelos_a_buffer1
            /\ (estado_m2 /= BLOQUEADA /\ estado_m2' = BLOQUEADA) =>
                   /\ item_en_m2' = item_en_m2
                   /\ cola2' = cola2
                   /\ stats'.cajas_empaquetadas_m2 = stats.cajas_empaquetadas_m2 + 1
            /\ (estado_m2 = BLOQUEADA /\ estado_m2' = BLOQUEADA) =>
                   /\ item_en_m2' = item_en_m2
                   /\ SoloCrece(cola2, cola2')
                   /\ stats'.cajas_empaquetadas_m2 = stats.cajas_empaquetadas_m2
            /\ (estado_m2 = BLOQUEADA /\ estado_m2' /= BLOQUEADA) =>
                   /\ cola3' /= <<>>
                   /\ Ultimo(cola3') = EnCola(item_en_m2[1], reloj')
                   /\ Len(cola3') = Len(cola3) - Uno(cola3 /= <<>>) + 1
                   /\ stats'.cajas_empaquetadas_m2 = stats.cajas_empaquetadas_m2]_vars

\* a FIN_PROCESO_MAQUINA2 handler has just unblocked stage 1, whose item is now
\* the last of cola2
C32_Witness ==
    /\ pc = "bucle"
    /\ evento_actual = FIN_PROCESO_MAQUINA2
    /\ m1_antes = BLOQUEADA
    /\ estado_m1 /= BLOQUEADA
    /\ cola2 /= <<>>
    /\ Ultimo(cola2).tiempo_llegada_cola_actual = reloj
    /\ Ultimo(cola2).tiempo_llegada_sistema < reloj

\* C33: cola1 is FIFO with no overtaking: between handlers the unit that
\* stage 1 holds arrived before every unit still waiting in cola1, so no unit
\* has started at stage 1 while a unit that arrived earlier waits.
C33_Cola1SinAdelantamiento ==
    (pc = "bucle" /\ item_en_m1 /= None) =>
        \A i \in DOMAIN cola1 :
            item_en_m1[1].tiempo_llegada_sistema < cola1[i].tiempo_llegada_sistema

\* ejecutar_simulacion is a running program: the loop takes its next step
\* whenever it has one.  Every horizon and capacity of Init, with the draws of
\* the run that blocks: durations clamped to 0 and positive ones.
SpecTermina == Init /\ [][NextLargo]_vars /\ WF_vars(NextLargo)

\* an upper bound of the events still to be dispatched: four for every
\* arrival that can still fall within the horizon (the arrival and the three
\* completions of its unit), and for every unit in the line the completions
\* it still has to go through
PorDespachar ==
    LET llegadas == {eventos[i].tiempo :
                        i \in Pendientes(eventos, LLEGADA_ITEM_COLA1)}
        restantes(t) == Max(0, sim_time - t + 1)
        proxima == IF llegadas = {} THEN 0
                   ELSE restantes(CHOOSE t \in llegadas :
                                      \A r \in llegadas : t <= r)
    IN  4 * proxima
        + 3 * (Len(cola1) + Uno(estado_m1 = PROCESANDO))
        + 2 * (Uno(estado_m1 = BLOQUEADA) + Len(cola2)
               + Uno(estado_m2 = PROCESANDO))
        + (Uno(estado_m2 = BLOQUEADA) + Len(cola3) + Len(item_en_m3))

\* C34: for every finite horizon and every sequence of draws with positive
\* inter-arrival times, durations clamped to 0 included, ejecutar_simulacion
\* terminates: every event dispatched lowers the bound of the events still to
\* be dispatched, and the loop comes to an end (it returns, or an exception
\* leaves it).
C34_Termina ==
    /\ [][(pc = "bucle" /\ pc' = "bucle") =>
             (PorDespachar' < PorDespachar /\ PorDespachar' >= 0)]_vars
    /\ <>(pc \in {"fin", "TypeError", "ValidationError"})

\* the loop has returned after the clock advanced, and the last box sealed
\* went through the three stages with every duration clamped to 0
C34_Witness ==
    /\ pc = "fin"
    /\ sim_time > 0
    /\ reloj > 0
    /\ stats.cajas_selladas_m3 > 0
    /\ stats.tiempos_sistema_caja.ultimo = <<0>>

\* C35: the defect convention u < defect_prob is applied in index.maquina1 as
\* it is in _manejar_fin_proceso_maquina1: the unit maquina1 has just finished
\* is counted as defective exactly when its uniform draw u is below
\* defect_prob_param, so that with defect_prob_param = 0 no unit is defective.
C35_ConvencionDeDefectos ==
    \A i \in DOMAIN ultimo_sorteo :
        ~ultimo_sorteo[i].bueno <=> ultimo_sorteo[i].u < defect_prob_param


\* ---------------------------------------------------------------------
\* fifty units per box in the process-based line
\* ---------------------------------------------------------------------

\* 1 while a put(1) of maquina1 has been carried out by the Container and
\* maquina1 has not been resumed yet (its event is still in the queue)
PutSinContar ==
    Uno(\E i \in DOMAIN env_queue : /\ env_queue[i].tipo = "ContainerPut"
                                    /\ env_queue[i].proc = MAQUINA1)

\* C36 as stated: in every reachable state of the process-based line the
\* level of Buffer1 is within 0..capacity, caramelos_a_buffer1 equals the
\* level plus 50 per get(50) carried out, and no more boxes are sealed than
\* packed.
C36_CincuentaPorCaja ==
    /\ 0 <= buffer1.level
    /\ buffer1.level <= buffer1.capacity
    /\ current_stats.caramelos_a_buffer1 =
           buffer1.level + CARAMELOS_POR_CAJA * cajas_iniciadas_m2
    /\ current_stats.cajas_empaquetadas_m2 >= current_stats.cajas_selladas_m3

\* C36 amended: the same, where the unit of a put(1) already carried out is
\* counted by caramelos_a_buffer1 only once maquina1 is resumed; until then
\* the counter is one behind the level.
C36_CincuentaPorCajaAlReanudar ==
    /\ 0 <= buffer1.level
    /\ buffer1.level <= buffer1.capacity
    /\ current_stats.caramelos_a_buffer1 + PutSinContar =
           buffer1.level + CARAMELOS_POR_CAJA * cajas_iniciadas_m2
    /\ current_stats.cajas_empaquetadas_m2 >= current_stats.cajas_selladas_m3

\* a box has been started, units of the next one are in Buffer1 and a put
\* carried out is waiting for maquina1 to be resumed
C36_Witness ==
    /\ cajas_iniciadas_m2 >= 1
    /\ buffer1.level > 0
    /\ PutSinContar = 1
    /\ current_stats.cajas_empaquetadas_m2 >= 1


\* ---------------------------------------------------------------------
\* stage 1 blocked and the room in cola2
\* ---------------------------------------------------------------------

\* C37: between events, stage 1 is BLOQUEADA only if cola2 is at capacity.
C37_M1BloqueadaSoloConCola2Llena ==
    (pc = "bucle" /\ estado_m1 = BLOQUEADA) =>
        Len(cola2) >= buffer2_capacity


\* ---------------------------------------------------------------------
\* the pending events and the states of the machines
\* ---------------------------------------------------------------------

CuantosPendientes(tipo) == Cardinality(Pendientes(eventos, tipo))

\* C38: between handlers the queue holds exactly one FIN_PROCESO_MAQUINAi if
\* stage i is PROCESANDO and none otherwise, and exactly one
\* LLEGADA_ITEM_COLA1; the event about to be dispatched, if it is a
\* FIN_PROCESO_MAQUINAi, finds an item in stage i.
C38_PendientesSegunEstados ==
    pc = "bucle" =>
        /\ CuantosPendientes(FIN_PROCESO_MAQUINA1) = Uno(estado_m1 = PROCESANDO)
        /\ CuantosPendientes(FIN_PROCESO_MAQUINA2) = Uno(estado_m2 = PROCESANDO)
        /\ CuantosPendientes(FIN_PROCESO_MAQUINA3) = Uno(estado_m3 = PROCESANDO)
        /\ CuantosPendientes(LLEGADA_ITEM_COLA1) = 1
        /\ \A p \in {heappop(eventos)} :
               ~p.err =>
                   /\ p.item.tipo = FIN_PROCESO_MAQUINA1 => item_en_m1 /= None
                   /\ p.item.tipo = FIN_PROCESO_MAQUINA2 => item_en_m2 /= None
                   /\ p.item.tipo = FIN_PROCESO_MAQUINA3 => item_en_m3 /= None

\* the three stages are working at once and the completion of stage 3 is
\* the next event
C38_Witness ==
    /\ pc = "bucle"
    /\ estado_m1 = PROCESANDO
    /\ estado_m2 = PROCESANDO
    /\ estado_m3 = PROCESANDO
    /\ Len(eventos) = 4
    /\ ~heappop(eventos).err
    /\ heappop(eventos).item.tipo = FIN_PROCESO_MAQUINA3


\* ---------------------------------------------------------------------
\* where the units that arrived are
\* ---------------------------------------------------------------------

\* the arrivals accounted for: lost, waiting, in process or produced
Llegados ==
    stats.items_perdidos_buffer1 + Len(cola1) + Uno(estado_m1 = PROCESANDO)
    + stats.producidos_m1

\* C39: between handlers, the arrivals dispatched equal the units lost,
\* waiting in cola1, in process in stage 1 and produced (the sum is 0 before
\* the first event and grows by one with every arrival handler and with no
\* other handler); the good units equal the unit held by a blocked stage 1,
\* those in cola2, the one in process in stage 2 and the boxes packed; and
\* the boxes packed equal the one held by a blocked stage 2, those in cola3,
\* the one in stage 3 and the boxes sealed.
C39_NadaSeDuplicaNiSePierde ==
    /\ [](pc = "inicial" => Llegados = 0)
    /\ [][pc' = "bucle" =>
            Llegados' = Llegados + Uno(HandlerCompleto(LLEGADA_ITEM_COLA1))]_vars
    /\ [](pc = "bucle" =>
            /\ stats.caramelos_a_buffer1 =
                   Uno(estado_m1 = BLOQUEADA) + Len(cola2)
                   + Uno(estado_m2 = PROCESANDO) + stats.cajas_empaquetadas_m2
            /\ stats.cajas_empaquetadas_m2 =
                   Uno(estado_m2 = BLOQUEADA) + Len(cola3)
                   + Len(item_en_m3) + stats.cajas_selladas_m3)

\* an arrival has been lost, stage 1 is blocked, a defect has been counted
\* and a box has been sealed
C39_Witness ==
    /\ pc = "bucle"
    /\ stats.items_perdidos_buffer1 >= 1
    /\ estado_m1 = BLOQUEADA
    /\ stats.defectos_m1 >= 1
    /\ stats.cajas_selladas_m3 >= 1


\* ---------------------------------------------------------------------
\* the process-based line going on
\* ---------------------------------------------------------------------

\* the last unit drawn by maquina1 was a good one
BuenoSorteado == ultimo_sorteo /= <<>> /\ ultimo_sorteo[1].bueno

\* maquina2 has been given its 50 units and is packing a box
M2Empaquetando ==
    \E i \in DOMAIN env_queue : /\ env_queue[i].proc = MAQUINA2
                                /\ env_queue[i].tipo = "Timeout"

\* maquina1 waits for room in Buffer1
M1EsperaLugar == buffer1.put_queue /= <<>>

\* C40: for every capacity of Buffer1 and of Buffer2 from 1 on, if maquina1
\* goes on having good units to deliver, maquina2 is given 50 units and packs
\* a box again and again, and maquina1 waiting for room in Buffer1 is
\* eventually given it.
C40_LaLineaNoSeDetiene ==
    []<>BuenoSorteado =>
        /\ []<>M2Empaquetando
        /\ (M1EsperaLugar ~> ~M1EsperaLugar)

====
